---- MODULE Spec2Model ----
(***************************************************************************)
(* A model of the Peggy PEG compiler: the grammar front-end                *)
(* (compiler/parser.rs), the analyses and the matchers emitted by the Rust *)
(* generator (generators/rust.rs).                                         *)
(*                                                                         *)
(* Strings are sequences of one-character strings, so that slicing,        *)
(* prefixes and columns are computed as the code computes them.            *)
(***************************************************************************)
EXTENDS Integers, Sequences, FiniteSets, TLC

VARIABLES
    mode,       \* which entry point of the program this behaviour runs
    input,      \* parse_peg_nocheck / parse_rule_content / matcher: the input text
    l,          \* parse_peg_nocheck: index of the next line of input.lines()
    rules,      \* parse_peg_nocheck: the collected rules (name -> RuleContent)
    multi_line_comment_opened,  \* parse_peg_nocheck: None or <<line, col>>
    result,     \* the value returned by the entry point, or Running
    shape,      \* parse_rule_content: how the content was written (groups of pieces, separators)
    state,      \* gen_rust_token_stream: the InternalState, <<>> before it is built
    traversal   \* find_recursive_patterns: the pending calls, `path` and `treated_recursives`

vars == <<mode, input, l, rules, multi_line_comment_opened, result, shape, state, traversal>>

(***************************************************************************)
(* Characters and slices                                                   *)
(***************************************************************************)

Letters == {"a", "b", "c", "d", "e", "f", "g", "h", "i", "j", "k", "l", "m",
            "n", "o", "p", "q", "r", "s", "t", "u", "v", "w", "x", "y", "z",
            "A", "B", "C", "D", "E", "F", "G", "H", "I", "J", "K", "L", "M",
            "N", "O", "P", "Q", "R", "S", "T", "U", "V", "W", "X", "Y", "Z"}

Digits == {"0", "1", "2", "3", "4", "5", "6", "7", "8", "9"}

is_whitespace(c) == c \in {" ", "\t"}

is_alphabetic(c) == c \in Letters

is_alphanumeric(c) == c \in Letters \cup Digits

Drop(s, n) == SubSeq(s, n + 1, Len(s))

Take(s, n) == SubSeq(s, 1, n)

starts_with(s, prefix) ==
    /\ Len(prefix) <= Len(s)
    /\ Take(s, Len(prefix)) = prefix

None == [tag |-> "None"]

Some(v) == [tag |-> "Some", val |-> v]

Ok(v) == [tag |-> "Ok", val |-> v]

Err(e) == [tag |-> "Err", err |-> e]

Panic(msg) == [tag |-> "Panic", msg |-> msg]

Running == [tag |-> "Running"]

(***************************************************************************)
(* compiler/utils.rs and compiler/errors.rs: small helpers of the parser   *)
(***************************************************************************)

ParserLoc(line, col) == [line |-> line, col |-> col]

ParserError(loc, length, content, hint) ==
    [loc |-> loc, length |-> length, content |-> content, hint |-> hint]

ErrKind(kind) == [kind |-> kind]

count_start_whitespaces(s) ==
    CHOOSE n \in 0..Len(s) :
        /\ \A i \in 1..n : is_whitespace(s[i])
        /\ n = Len(s) \/ ~is_whitespace(s[n + 1])

trim_start_and_count(s) ==
    LET n == count_start_whitespaces(s) IN <<Drop(s, n), n>>

trim_end(s) ==
    LET n == CHOOSE k \in 0..Len(s) :
                 /\ \A i \in (k + 1)..Len(s) : is_whitespace(s[i])
                 /\ k = 0 \/ ~is_whitespace(s[k])
    IN  Take(s, n)

is_finished_line(s) == \A i \in 1..Len(s) : is_whitespace(s[i])

is_reserved_rule_name(name) ==
    starts_with(name, <<"B", "_">>) \/ starts_with(name, <<"E", "_">>)

add_parser_loc(line, col, loc) ==
    ParserLoc(loc.line + line, IF loc.line = 0 THEN loc.col + col ELSE loc.col)

sub_parser_loc(line, col, loc) ==
    ParserLoc(loc.line - line, IF loc.line = line THEN loc.col - col ELSE loc.col)

add_base_err_loc(line, col, err) ==
    [err EXCEPT !.loc = add_parser_loc(line, col, err.loc)]

(***************************************************************************)
(* The grammar tree                                                        *)
(***************************************************************************)

CstString(s) == [tag |-> "CstString", s |-> s]

Rule(name) == [tag |-> "Rule", name |-> name]

Group(p) == [tag |-> "Group", inner |-> p]

Suite(ps) == [tag |-> "Suite", pieces |-> ps]

Union(ps) == [tag |-> "Union", pieces |-> ps]

Pattern(relative_loc, repetition, is_silent, value) ==
    [relative_loc |-> relative_loc, repetition |-> repetition,
     is_silent |-> is_silent, value |-> value]

PatternRepetition_parse(symbol) ==
    CASE symbol = "*" -> Some("Any")
      [] symbol = "+" -> Some("OneOrMore")
      [] symbol = "?" -> Some("Optional")
      [] OTHER -> None

(***************************************************************************)
(* compiler/singles.rs: the atoms of a piece                               *)
(***************************************************************************)

\* A constant string: '"', any characters but '"', '"'.
cst_string(s) ==
    IF Len(s) = 0 \/ s[1] # "\"" THEN Ok(None)
    ELSE IF \A j \in 2..Len(s) : s[j] # "\""
         THEN Err(ParserError(ParserLoc(0, 0), 1, ErrKind("UnterminatedString"), ""))
         ELSE LET j == CHOOSE k \in 2..Len(s) :
                           s[k] = "\"" /\ \A i \in 2..(k - 1) : s[i] # "\""
              IN  Ok(Some(<<SubSeq(s, 2, j - 1), j>>))

\* A rule's name: an alphabetic character or '_', then alphanumerics and '_'.
rule_name(s) ==
    IF Len(s) = 0 \/ ~(is_alphabetic(s[1]) \/ s[1] = "_") THEN Ok(None)
    ELSE LET n == CHOOSE k \in 1..Len(s) :
                      /\ \A i \in 1..k : is_alphanumeric(s[i]) \/ s[i] = "_"
                      /\ k = Len(s) \/ ~(is_alphanumeric(s[k + 1]) \/ s[k + 1] = "_")
         IN  Ok(Some(<<Take(s, n), n>>))

\* The index of the ')' closing the '(' at s[1], 0 when there is none.
\* Parentheses inside a constant string are not counted.
RECURSIVE group_end(_, _, _, _)
group_end(s, i, depth, in_string) ==
    IF i > Len(s) THEN 0
    ELSE IF in_string THEN group_end(s, i + 1, depth, s[i] # "\"")
    ELSE IF s[i] = "\"" THEN group_end(s, i + 1, depth, TRUE)
    ELSE IF s[i] = "(" THEN group_end(s, i + 1, depth + 1, FALSE)
    ELSE IF s[i] = ")" THEN
        IF depth = 1 THEN i ELSE group_end(s, i + 1, depth - 1, FALSE)
    ELSE group_end(s, i + 1, depth, FALSE)

(***************************************************************************)
(* compiler/parser.rs: pieces, patterns and rule contents                  *)
(*                                                                         *)
(* A function of the source is written as a chain of operators, one per    *)
(* `let`: each passes what it computed to the next as a parameter.         *)
(***************************************************************************)

parse_rule_pattern_silence(s) ==
    IF starts_with(s, <<"_", ":">>) THEN <<2, TRUE>> ELSE <<0, FALSE>>

create_union_child_suite(moved) ==
    Ok(Pattern(moved[1].relative_loc, None, FALSE, Suite(moved)))

\* A faulty create_union_child: a single pattern is wrapped in a Suite too.
create_union_child_always_wraps(patterns) ==
    IF Len(patterns) = 0 THEN Panic("assertion failed: patterns.len() != 0")
    ELSE create_union_child_suite(
             [i \in 1..Len(patterns) |->
                 [patterns[i] EXCEPT !.relative_loc =
                     sub_parser_loc(patterns[1].relative_loc.line,
                                    patterns[1].relative_loc.col, @)]])

create_union_child(patterns) ==
    IF Len(patterns) = 0 THEN Panic("assertion failed: patterns.len() != 0")
    ELSE IF Len(patterns) = 1 THEN Ok(patterns[1])
    ELSE create_union_child_suite(
             [i \in 1..Len(patterns) |->
                 [patterns[i] EXCEPT !.relative_loc =
                     sub_parser_loc(patterns[1].relative_loc.line,
                                    patterns[1].relative_loc.col, @)]])

RECURSIVE parse_rule_content(_, _)

\* singles::group: '(', a rule content, ')'.
group_of(content, e) ==
    IF content.tag # "Ok" THEN content ELSE Ok(Some(<<content.val, e>>))

group_closed_at(s, e) ==
    IF e = 0
    THEN Err(ParserError(ParserLoc(0, 0), 1, ErrKind("UnterminatedGroup"), ""))
    ELSE group_of(parse_rule_content(SubSeq(s, 2, e - 1), ParserLoc(0, 1)), e)

group(s) ==
    IF Len(s) = 0 \/ s[1] # "(" THEN Ok(None)
    ELSE group_closed_at(s, group_end(s, 1, 0, FALSE))

\* parse_pattern_piece: the value, tried as a string, a rule's name, a group.
piece_value_group(inp, grp) ==
    IF grp.tag # "Ok" THEN grp
    ELSE IF grp.val.tag = "Some"
    THEN Ok(<<Group(grp.val.val[1]), grp.val.val[2]>>)
    ELSE Err(ParserError(ParserLoc(0, 0), 0, ErrKind("ExpectedRuleContent"),
             IF Len(inp) = 0
             THEN "you need to provide a rule pattern, such as a group, a string or a rule's name"
             ELSE IF inp[1] = "'" THEN "strings require double quotes"
             ELSE "You may either open a group with '(', a string with '\"', or specify a rule's name"))

piece_value_rule_name(inp, name) ==
    IF name.tag # "Ok" THEN name
    ELSE IF name.val.tag = "Some"
    THEN Ok(<<Rule(name.val.val[1]), name.val.val[2]>>)
    ELSE piece_value_group(inp, group(inp))

piece_value_cst_string(inp, str) ==
    IF str.tag # "Ok" THEN str
    ELSE IF str.val.tag = "Some"
    THEN Ok(<<CstString(str.val.val[1]), str.val.val[2]>>)
    ELSE piece_value_rule_name(inp, rule_name(inp))

piece_with_repetition(trimmed, is_silent, value, len, repetition) ==
    Ok(<<Pattern(ParserLoc(0, 0), repetition, is_silent, value),
         trimmed + len + (IF repetition.tag = "Some" THEN 1 ELSE 0)>>)

piece_with_value(trimmed, is_silent, inp, atom) ==
    IF atom.tag # "Ok" THEN atom
    ELSE piece_with_repetition(trimmed, is_silent, atom.val[1], atom.val[2],
             IF atom.val[2] < Len(inp)
             THEN PatternRepetition_parse(inp[atom.val[2] + 1])
             ELSE None)

piece_after_silence(trimmed, is_silent, inp) ==
    piece_with_value(trimmed, is_silent, inp,
                     piece_value_cst_string(inp, cst_string(inp)))

parse_pattern_piece(s) ==
    piece_after_silence(parse_rule_pattern_silence(s)[1],
                        parse_rule_pattern_silence(s)[2],
                        Drop(s, parse_rule_pattern_silence(s)[1]))

\* The number of characters looked ahead of the end of the first piece, and
\* whether a '|' ended the look-ahead: the `for c in chars` loop of parse_pattern.
RECURSIVE look_ahead(_, _, _)
look_ahead(s, i, looked_ahead) ==
    IF i > Len(s) THEN <<looked_ahead, FALSE>>
    ELSE IF is_whitespace(s[i]) THEN look_ahead(s, i + 1, looked_ahead + 1)
    ELSE IF s[i] = "|" THEN <<looked_ahead + 1, TRUE>>
    ELSE <<looked_ahead + 1 - 1, FALSE>>

pattern_looked_ahead(first_pattern, len, la) ==
    Ok(<<first_pattern, len + la[1],
         IF la[2] THEN "UnionSep" ELSE "ContinuationSep">>)

pattern_separator(first_pattern, first_pattern_len, trimmed, rest) ==
    IF is_finished_line(rest)
    THEN Ok(<<first_pattern, first_pattern_len + trimmed, "End">>)
    ELSE IF is_whitespace(rest[1])
    THEN pattern_looked_ahead(first_pattern, first_pattern_len + trimmed,
                              look_ahead(rest, 2, 1))
    ELSE IF rest[1] = "|"
    THEN Ok(<<first_pattern, first_pattern_len + trimmed + 1, "UnionSep">>)
    ELSE Err(ParserError(ParserLoc(0, first_pattern_len + trimmed), 1,
             ErrKind("ExpectedPatternSeparatorOrEndOfLine"),
             "adding another pattern to the suite requires a whitespace, or a vertical bar (|) for an union"))

pattern_first_piece(inp, trimmed, piece) ==
    IF piece.tag = "Panic" THEN piece
    ELSE IF piece.tag # "Ok" THEN Err(add_base_err_loc(0, trimmed, piece.err))
    ELSE pattern_separator(piece.val[1], piece.val[2], trimmed,
                           Drop(inp, piece.val[2]))

pattern_trimmed(inp, trimmed) ==
    pattern_first_piece(inp, trimmed, parse_pattern_piece(inp))

parse_pattern(s) ==
    pattern_trimmed(trim_start_and_count(s)[1], trim_start_and_count(s)[2])

\* The `loop` of parse_rule_content, one call per iteration.
RECURSIVE parse_rule_content_loop(_, _, _, _, _, _)

\* `PatternParserStoppedAt::End`: the value the loop breaks with.
content_union(unions) ==
    IF ~(Len(unions) >= 2)
    THEN Panic("assertion failed: unions.len() >= 2")
    ELSE Ok(Pattern(ParserLoc(0, 0), None, FALSE, Union(unions)))

content_last_child(unions, child) ==
    IF child.tag # "Ok" THEN child
    ELSE content_union(Append(unions, child.val))

\* A faulty content_end: the patterns pending after the last `|` are dropped.
content_end_drops_pending(stopped_at, patterns, unions) ==
    IF stopped_at # "UnionSep" /\ unions = <<>>
    THEN IF Len(patterns) = 1
         THEN Ok(patterns[1])
         ELSE Ok(Pattern(ParserLoc(0, 0), None, FALSE, Suite(patterns)))
    ELSE Ok(Pattern(ParserLoc(0, 0), None, FALSE, Union(unions)))

content_end(stopped_at, patterns, unions) ==
    IF stopped_at # "UnionSep" /\ unions = <<>>
    THEN IF Len(patterns) = 1
         THEN Ok(patterns[1])
         ELSE Ok(Pattern(ParserLoc(0, 0), None, FALSE, Suite(patterns)))
    ELSE IF patterns # <<>>
    THEN content_last_child(unions, create_union_child(patterns))
    ELSE content_union(unions)

\* `PatternParserStoppedAt::UnionSep`: the pending patterns become a member.
content_union_sep(base_loc, stopped_at, rest, column, unions, child) ==
    IF child.tag # "Ok" THEN child
    ELSE parse_rule_content_loop(base_loc, stopped_at, rest, column, <<>>,
                                 Append(unions, child.val))

content_next(base_loc, stopped_at, rest, column, patterns, unions, next_stopped_at) ==
    CASE next_stopped_at = "End" -> content_end(stopped_at, patterns, unions)
      [] next_stopped_at = "ContinuationSep" ->
            parse_rule_content_loop(base_loc, stopped_at, rest, column, patterns, unions)
      [] next_stopped_at = "UnionSep" ->
            content_union_sep(base_loc, stopped_at, rest, column, unions,
                              create_union_child(patterns))

content_trim(base_loc, stopped_at, after, column, patterns, unions, next_stopped_at, trimmed) ==
    content_next(base_loc, stopped_at, Drop(after, trimmed), column + trimmed,
                 patterns, unions, next_stopped_at)

content_pushed(base_loc, stopped_at, s, column, patterns, unions, next) ==
    IF next.tag = "Panic" THEN next
    ELSE IF next.tag # "Ok"
    THEN Err(add_base_err_loc(base_loc.line, base_loc.col + column, next.err))
    ELSE content_trim(base_loc, stopped_at, Drop(s, next.val[2]),
                      column + next.val[2],
                      Append(patterns, [next.val[1] EXCEPT !.relative_loc =
                                           add_parser_loc(0, column, @)]),
                      unions, next.val[3],
                      count_start_whitespaces(Drop(s, next.val[2])))

parse_rule_content_loop(base_loc, stopped_at, s, column, patterns, unions) ==
    content_pushed(base_loc, stopped_at, s, column, patterns, unions,
                   parse_pattern(s))

\* "Update the base location" of the global pattern.
content_located(base_loc, global_pattern) ==
    IF global_pattern.tag # "Ok" THEN global_pattern
    ELSE Ok([global_pattern.val EXCEPT !.relative_loc =
                ParserLoc(@.line + base_loc.line,
                          IF @.line = 0 THEN @.col + base_loc.col ELSE @.col)])

content_first_union(base_loc, rest, pattern_len, child) ==
    IF child.tag # "Ok" THEN child
    ELSE parse_rule_content_loop(base_loc, "UnionSep", rest, pattern_len,
                                 <<>>, <<child.val>>)

content_first(base_loc, s, first) ==
    IF first.tag = "Panic" THEN first
    ELSE IF first.tag # "Ok"
    THEN Err(add_base_err_loc(base_loc.line, base_loc.col, first.err))
    ELSE content_located(base_loc,
             CASE first.val[3] = "End" -> Ok(first.val[1])
               [] first.val[3] = "UnionSep" ->
                     content_first_union(base_loc, Drop(s, first.val[2]), first.val[2],
                                         create_union_child(<<first.val[1]>>))
               [] first.val[3] = "ContinuationSep" ->
                     parse_rule_content_loop(base_loc, "ContinuationSep",
                                             Drop(s, first.val[2]), first.val[2],
                                             <<first.val[1]>>, <<>>))

parse_rule_content(s, base_loc) == content_first(base_loc, s, parse_pattern(s))

(***************************************************************************)
(* compiler/parser.rs: parse_peg_nocheck                                   *)
(***************************************************************************)

GRAMMAR_ENTRYPOINT_RULE == <<"m", "a", "i", "n">>

\* str::lines: the text split at each "\n" (a "\r" before it is dropped); a
\* final "\n" opens no further line.
RECURSIVE lines(_)
lines(text) ==
    IF text = <<>> THEN <<>>
    ELSE IF \A i \in 1..Len(text) : text[i] # "\n" THEN <<text>>
    ELSE LET nl   == CHOOSE k \in 1..Len(text) :
                         text[k] = "\n" /\ \A i \in 1..(k - 1) : text[i] # "\n"
             line == Take(text, nl - 1)
         IN  <<IF line # <<>> /\ line[Len(line)] = "\r"
               THEN Take(line, Len(line) - 1) ELSE line>>
             \o lines(Drop(text, nl))

\* The `loop` over the characters of a rule line up to its '=': the length of
\* the rule's name and the number of spaces before the '=', or an error.
RECURSIVE scan_rule_declaration(_, _, _, _, _, _, _)
scan_rule_declaration(ln, trimmed, chars, i, rule_name_length, rule_name_ended, rule_op_spaces_sep) ==
    IF i > Len(chars)
    THEN Err(ParserError(ParserLoc(ln, trimmed + rule_name_length), 1,
             ErrKind("ExpectedRuleAssignmentOp"),
             "you may have forgot to add the rule assignment operator '='"))
    ELSE LET c == chars[i] IN
         IF ~rule_name_ended /\ (is_alphanumeric(c) \/ c = "_")
         THEN scan_rule_declaration(ln, trimmed, chars, i + 1, rule_name_length + 1,
                                    rule_name_ended, rule_op_spaces_sep)
         ELSE IF c = "="
         THEN Ok(<<rule_name_length, rule_op_spaces_sep>>)
         ELSE IF is_whitespace(c)
         THEN scan_rule_declaration(ln, trimmed, chars, i + 1, rule_name_length,
                                    TRUE, rule_op_spaces_sep + 1)
         ELSE Err(ParserError(ParserLoc(ln, trimmed + rule_name_length), 1,
                  [kind |-> "IllegalSymbol", c |-> c],
                  "only alphanumeric and underscore characters are allowed in a rule's name"))

\* A step of the loop's body: what the line leaves of the rules and of the
\* comment state, and `ret`, the value returned from inside the loop if any.
LineOutcome(new_rules, comment, ret) ==
    [rules |-> new_rules, multi_line_comment_opened |-> comment, ret |-> ret]

\* A faulty is_comment_marker: any line that begins with the marker counts.
is_comment_marker_by_prefix(line) == starts_with(line, <<"#", "#", "#">>)

is_comment_marker(line) == trim_end(line) = <<"#", "#", "#">>

\* A faulty toggle_comment: a marker opens a comment and none closes it.
toggle_comment_never_closes(comment, ln, trimmed) == Some(<<ln, trimmed>>)

toggle_comment(comment, ln, trimmed) ==
    IF comment = None THEN Some(<<ln, trimmed>>) ELSE None

\* A faulty reserved_rule_name_error: the indentation of the line is left out.
reserved_rule_name_error_unindented(ln, trimmed, rule_name_length) ==
    Err(ParserError(ParserLoc(ln, 0), rule_name_length,
        ErrKind("ReservedUppercaseRuleName"),
        "try to use a name that doesn't start by 'B_' (builtin rules) or 'E_' (external rules)"))

reserved_rule_name_error(ln, trimmed, rule_name_length) ==
    Err(ParserError(ParserLoc(ln, trimmed), rule_name_length,
        ErrKind("ReservedUppercaseRuleName"),
        "try to use a name that doesn't start by 'B_' (builtin rules) or 'E_' (external rules)"))

line_rule_parsed(cur_rules, comment, name, rule) ==
    IF rule.tag # "Ok"
    THEN LineOutcome(cur_rules, comment, Some(rule))
    ELSE LineOutcome([n \in DOMAIN cur_rules \cup {name} |->
                         IF n = name THEN rule.val ELSE cur_rules[n]],
                     comment, None)

line_rule_content(ln, cur_rules, comment, name, content, start_column) ==
    line_rule_parsed(cur_rules, comment, name,
        parse_rule_content(content, ParserLoc(ln, start_column)))

line_rule_named(ln, line, trimmed, cur_rules, comment, rule_name_length, rule_op_spaces_sep, name) ==
    IF is_reserved_rule_name(name)
    THEN LineOutcome(cur_rules, comment,
                     Some(reserved_rule_name_error(ln, trimmed, rule_name_length)))
    ELSE IF name \in DOMAIN cur_rules
    THEN LineOutcome(cur_rules, comment,
             Some(Err(ParserError(ParserLoc(ln, trimmed), rule_name_length,
                 ErrKind("DuplicateRuleName"), ""))))
    ELSE line_rule_content(ln, cur_rules, comment, name,
             trim_start_and_count(
                 Drop(line, rule_name_length + rule_op_spaces_sep + 1))[1],
             rule_name_length + rule_op_spaces_sep + 1 + trimmed
             + trim_start_and_count(
                   Drop(line, rule_name_length + rule_op_spaces_sep + 1))[2])

line_rule_declared(ln, line, trimmed, cur_rules, comment, decl) ==
    IF decl.tag # "Ok" THEN LineOutcome(cur_rules, comment, Some(decl))
    ELSE line_rule_named(ln, line, trimmed, cur_rules, comment,
                         decl.val[1], decl.val[2], Take(line, decl.val[1]))

line_trimmed(ln, line, trimmed, cur_rules, comment) ==
    IF is_comment_marker(line)
    THEN LineOutcome(cur_rules, toggle_comment(comment, ln, trimmed), None)
    ELSE IF comment # None THEN LineOutcome(cur_rules, comment, None)
    ELSE IF is_finished_line(line) THEN LineOutcome(cur_rules, comment, None)
    ELSE IF ~is_alphabetic(line[1]) /\ line[1] # "_"
    THEN LineOutcome(cur_rules, comment,
             Some(Err(ParserError(ParserLoc(ln, trimmed), 1,
                 ErrKind("ExpectedRuleDeclaration"),
                 IF line[1] \in Digits
                 THEN "digits are not allowed to begin a rule's name"
                 ELSE "only alphabetic and underscores characters are allowed to begin a rule's name"))))
    ELSE line_rule_declared(ln, line, trimmed, cur_rules, comment,
             scan_rule_declaration(ln, trimmed, line, 2, 1, FALSE, 0))

\* One iteration of `for (l, line) in input.lines().enumerate()`.
parse_peg_nocheck_line(ln, raw_line, cur_rules, comment) ==
    line_trimmed(ln, trim_start_and_count(raw_line)[1],
                 trim_start_and_count(raw_line)[2], cur_rules, comment)

\* A faulty parse_peg_nocheck_end: the presence of `main` is not checked.
parse_peg_nocheck_end_without_main(text, cur_rules, comment) ==
    IF comment # None
    THEN Err(ParserError(ParserLoc(Len(lines(text)), 0), 0,
             [kind |-> "UnterminatedMultiLineComment",
              started_at |-> ParserLoc(comment.val[1], comment.val[2])],
             "you can add '###' on a single line to close the comment"))
    ELSE Ok([rules |-> cur_rules])

\* The checks after the loop, and the value returned.
parse_peg_nocheck_end(text, cur_rules, comment) ==
    IF comment # None
    THEN Err(ParserError(ParserLoc(Len(lines(text)), 0), 0,
             [kind |-> "UnterminatedMultiLineComment",
              started_at |-> ParserLoc(comment.val[1], comment.val[2])],
             "you can add '###' on a single line to close the comment"))
    ELSE IF GRAMMAR_ENTRYPOINT_RULE \notin DOMAIN cur_rules
    THEN Err(ParserError(ParserLoc(Len(lines(text)), 0), 0,
             ErrKind("MissingMainRule"),
             "you must declare a rule named 'main' which will be the entrypoint of your syntax"))
    ELSE Ok([rules |-> cur_rules])

\* parse_peg_nocheck as a function of its input: the loop, then the checks.
RECURSIVE parse_peg_nocheck_from(_, _, _, _)

parse_peg_nocheck_after(text, ln, o) ==
    IF o.ret # None THEN o.ret.val
    ELSE parse_peg_nocheck_from(text, ln + 1, o.rules, o.multi_line_comment_opened)

parse_peg_nocheck_from(text, ln, cur_rules, comment) ==
    IF ln >= Len(lines(text)) THEN parse_peg_nocheck_end(text, cur_rules, comment)
    ELSE parse_peg_nocheck_after(text, ln,
             parse_peg_nocheck_line(ln, lines(text)[ln + 1], cur_rules, comment))

NoRules == [n \in {} |-> None]

parse_peg_nocheck(text) == parse_peg_nocheck_from(text, 0, NoRules, None)

(***************************************************************************)
(* The grammars given to parse_peg_nocheck: every text of at most MaxLines *)
(* lines drawn from SrcLines, with or without a final line break, and the  *)
(* texts of Scenarios.                                                     *)
(***************************************************************************)

MaxLines == 3

SrcLines ==
    { <<"m", "a", "i", "n", " ", "=", " ", "\"", "a", "\"">>,
      <<"#", "#", "#">>,
      <<" ", "#", "#", "#", "\t">>,
      <<"B", "_", "X", " ", "=", " ", "\"", "a", "\"">>,
      <<" ", " ", "E", "_", "y", " ", "=", "$">>,
      <<" ">>,
      <<"u", "n", "t", "e", "r", "m", "i", "n", "a", "t", "e", "d">>,
      <<"x", " ", "=", " ", "y", " ", "|", " ", "\"", "b", "\"", " ", "z">> }

RECURSIVE Join(_)
Join(ls) ==
    IF ls = <<>> THEN <<>>
    ELSE IF Len(ls) = 1 THEN ls[1]
    ELSE ls[1] \o <<"\n">> \o Join(Tail(ls))

\* The grammars of scenario S5, as written and with each `###` on a line of
\* its own, and a grammar that declares reserved names.
S5_MissingMain == Join(<<<<"#", "#", "#", " ", "f", "o", "o", " ", "#", "#", "#">>, <<"f", "o", "o", " ", "=", " ", "\"", "a", "\"">>>>)

S5_Unterminated == Join(<<<<"#", "#", "#", " ", "u", "n", "t", "e", "r", "m", "i", "n", "a", "t", "e", "d">>, <<"m", "a", "i", "n", " ", "=", " ", "\"", "a", "\"">>>>)

S5_MissingMain_OwnLines == Join(<<<<"#", "#", "#">>, <<"f", "o", "o">>, <<"#", "#", "#">>, <<"f", "o", "o", " ", "=", " ", "\"", "a", "\"">>>>)

S5_Unterminated_OwnLines == Join(<<<<"#", "#", "#">>, <<"u", "n", "t", "e", "r", "m", "i", "n", "a", "t", "e", "d">>, <<"m", "a", "i", "n", " ", "=", " ", "\"", "a", "\"">>>>)

Scenarios ==
    { S5_MissingMain, S5_Unterminated, S5_MissingMain_OwnLines,
      Join(<<<<" ", "B", "_", "X", "\t", "=", " ", "\"", "a", "\"">>, <<"m", "a", "i", "n", " ", "=", " ", "B", "_", "X">>, <<"m", "a", "i", "n", " ", "=", " ", "B", "_", "X">>, <<"B", "_", "X", " ", "=", " ", "\"", "a", "\"">>>>) }

\* Lines that begin a declaration: an indentation, a name, whitespace, a
\* character, and the rest of the line.
DeclarationLines ==
    { indent \o name \o sep \o <<c>> \o rest :
        indent \in { <<>>, <<" ">>, <<"\t", " ">> },
        name \in { <<"a">>, <<"_", "1">>, <<"m", "a", "i", "n">> },
        sep \in { <<>>, <<" ">>, <<" ", "\t">> },
        c \in { "!", "-", "b", "\"", "=" },
        rest \in { <<>>, <<" ", "=", " ", "x">> } }

\* A declaration line alone, and after a rule.
DeclarationTexts ==
    { before \o line :
        before \in { <<>>, <<"m", "a", "i", "n", " ", "=", " ", "\"", "a", "\"", "\n">> },
        line \in DeclarationLines }

GrammarTexts ==
    { Join(ls) \o nl :
        ls \in UNION { [1..k -> SrcLines] : k \in 0..MaxLines },
        nl \in { <<>>, <<"\n">> } }
    \cup Scenarios
    \cup DeclarationTexts

(***************************************************************************)
(* parse_peg_nocheck, one line of the input at a time                      *)
(***************************************************************************)

InitParse ==
    /\ mode = "parse_peg_nocheck"
    /\ input \in GrammarTexts
    /\ l = 0
    /\ rules = NoRules
    /\ multi_line_comment_opened = None
    /\ result = Running
    /\ shape = <<>>
    /\ state = <<>>
    /\ traversal = <<>>

\* The body of the `for` loop runs on line l.
ReadLine ==
    /\ mode = "parse_peg_nocheck"
    /\ result = Running
    /\ l < Len(lines(input))
    /\ \E o \in { parse_peg_nocheck_line(l, lines(input)[l + 1], rules,
                                          multi_line_comment_opened) } :
           /\ rules' = o.rules
           /\ multi_line_comment_opened' = o.multi_line_comment_opened
           /\ result' = IF o.ret = None THEN Running ELSE o.ret.val
    /\ l' = l + 1
    /\ UNCHANGED <<mode, input, shape, state, traversal>>

\* The loop is over: the last checks, and the tree.
EndOfInput ==
    /\ mode = "parse_peg_nocheck"
    /\ result = Running
    /\ l = Len(lines(input))
    /\ result' = parse_peg_nocheck_end(input, rules, multi_line_comment_opened)
    /\ UNCHANGED <<mode, input, l, rules, multi_line_comment_opened, shape, state, traversal>>

NextParse == ReadLine \/ EndOfInput

Spec == InitParse /\ [][NextParse]_vars

(***************************************************************************)
(* parse_rule_content on a rule content: every text of at most             *)
(* MaxContentLen characters of ContentChars, and every content made of at  *)
(* most MaxGroups groups of at most MaxPieces pieces each.  `shape` holds  *)
(* the make-up of such a content: the number of pieces of each group, the  *)
(* kind of the first piece (the kinds then follow in the order of          *)
(* PieceKinds, round and round), and the two separators.                   *)
(***************************************************************************)

MaxContentLen == 5

MaxGroups == 3

MaxPieces == 3

ContentChars == {"a", " ", "|", "(", ")", "\""}

PieceKinds ==
    << [text |-> <<"a">>, tag |-> "Rule", of |-> <<"a">>, is_silent |-> FALSE,
        repetition |-> None],
       [text |-> <<"\"", "|", "\"">>, tag |-> "CstString", of |-> <<"|">>, is_silent |-> FALSE,
        repetition |-> None],
       [text |-> <<"_", ":", "c", "+">>, tag |-> "Rule", of |-> <<"c">>, is_silent |-> TRUE,
        repetition |-> Some("OneOrMore")],
       [text |-> <<"(", "y", " ", "z", "|", "w", ")", "*">>, tag |-> "Group", of |-> <<"y", " ", "z", "|", "w">>, is_silent |-> FALSE,
        repetition |-> Some("Any")] >>

UnionSeparators == { <<"|">>, <<" ", "|", " ">>, <<"\t", "|">>, <<"|", " ", " ">> }

PieceSeparators == { <<" ">>, <<" ", "\t">> }

Shapes ==
    { [sizes |-> sz, first |-> f, union_sep |-> us, piece_sep |-> ps] :
        sz \in UNION { [1..k -> 1..MaxPieces] : k \in 1..MaxGroups },
        f \in 0..(Len(PieceKinds) - 1),
        us \in UnionSeparators,
        ps \in PieceSeparators }

RECURSIVE SumTo(_, _)
SumTo(sizes, k) == IF k = 0 THEN 0 ELSE sizes[k] + SumTo(sizes, k - 1)

\* The kind of the j-th piece of the i-th group of a shape.
PieceOf(sh, i, j) ==
    PieceKinds[((sh.first + SumTo(sh.sizes, i - 1) + j - 1) % Len(PieceKinds)) + 1]

RECURSIVE RenderGroup(_, _, _)
RenderGroup(sh, i, j) ==
    IF j = sh.sizes[i] THEN PieceOf(sh, i, j).text
    ELSE PieceOf(sh, i, j).text \o sh.piece_sep \o RenderGroup(sh, i, j + 1)

RECURSIVE RenderFrom(_, _)
RenderFrom(sh, i) ==
    IF i = Len(sh.sizes) THEN RenderGroup(sh, i, 1)
    ELSE RenderGroup(sh, i, 1) \o sh.union_sep \o RenderFrom(sh, i + 1)

Render(sh) == RenderFrom(sh, 1)

ContentTexts ==
    UNION { [1..n -> ContentChars] : n \in 1..MaxContentLen }

InitContent ==
    /\ mode = "parse_rule_content"
    /\ \/ shape = <<>> /\ input \in ContentTexts
       \/ shape \in Shapes /\ input = Render(shape)
    /\ state = <<>>
    /\ traversal = <<>>
    /\ l = 0
    /\ rules = NoRules
    /\ multi_line_comment_opened = None
    /\ result = Running

ParseContent ==
    /\ mode = "parse_rule_content"
    /\ result = Running
    /\ result' = parse_rule_content(input, ParserLoc(l, 0))
    /\ UNCHANGED <<mode, input, l, rules, multi_line_comment_opened, shape, state, traversal>>

NextContent == ParseContent

SpecContent == InitContent /\ [][NextContent]_vars

(***************************************************************************)
(* compiler/utils.rs: the names of builtin and external patterns           *)
(***************************************************************************)

is_builtin_pattern_name(name) == starts_with(name, <<"B", "_">>)

is_external_pattern_name(name) == starts_with(name, <<"E", "_">>)

BuiltinPatterns ==
    { <<"B", "_", "A", "N", "Y">>, <<"B", "_", "N", "E", "W", "L", "I", "N", "E", "_", "C", "R">>, <<"B", "_", "N", "E", "W", "L", "I", "N", "E", "_", "L", "F">>, <<"B", "_", "D", "O", "U", "B", "L", "E", "_", "Q", "U", "O", "T", "E">>, <<"B", "_", "A", "S", "C", "I", "I">>,
      <<"B", "_", "A", "S", "C", "I", "I", "_", "A", "L", "P", "H", "A", "B", "E", "T", "I", "C">>, <<"B", "_", "A", "S", "C", "I", "I", "_", "A", "L", "P", "H", "A", "N", "U", "M", "E", "R", "I", "C">>, <<"B", "_", "A", "S", "C", "I", "I", "_", "C", "O", "N", "T", "R", "O", "L">>,
      <<"B", "_", "A", "S", "C", "I", "I", "_", "D", "I", "G", "I", "T">>, <<"B", "_", "A", "S", "C", "I", "I", "_", "G", "R", "A", "P", "H", "I", "C">>, <<"B", "_", "A", "S", "C", "I", "I", "_", "H", "E", "X", "D", "I", "G", "I", "T">>,
      <<"B", "_", "A", "S", "C", "I", "I", "_", "L", "O", "W", "E", "R", "C", "A", "S", "E">>, <<"B", "_", "A", "S", "C", "I", "I", "_", "P", "U", "N", "C", "T", "U", "A", "T", "I", "O", "N">>, <<"B", "_", "A", "S", "C", "I", "I", "_", "U", "P", "P", "E", "R", "C", "A", "S", "E">>,
      <<"B", "_", "A", "S", "C", "I", "I", "_", "W", "H", "I", "T", "E", "S", "P", "A", "C", "E">>, <<"B", "_", "C", "O", "N", "T", "R", "O", "L">>, <<"B", "_", "L", "O", "W", "E", "R", "C", "A", "S", "E">>, <<"B", "_", "N", "U", "M", "E", "R", "I", "C">>,
      <<"B", "_", "U", "P", "P", "E", "R", "C", "A", "S", "E">>, <<"B", "_", "W", "H", "I", "T", "E", "S", "P", "A", "C", "E">> }

is_valid_builtin_pattern(name) == name \in BuiltinPatterns

(***************************************************************************)
(* generators/rust.rs: find_recursive_patterns                             *)
(*                                                                         *)
(* The recursion of find_recursive_patterns_in and build_patterns_list is  *)
(* run with an explicit stack of pending calls: "in" is a call of          *)
(* find_recursive_patterns_in up to its `path.push`, "pop" is its          *)
(* `path.pop()`, and "list" is a call of build_patterns_list.              *)
(***************************************************************************)

CallIn(pattern_name) == [call |-> "in", pattern_name |-> pattern_name]

CallList(piece_value) == [call |-> "list", piece_value |-> piece_value]

CallPop == [call |-> "pop"]

Traversal(stack, path, treated_recursives, panicked) ==
    [stack |-> stack, path |-> path, treated_recursives |-> treated_recursives,
     panicked |-> panicked]

\* find_recursive_patterns, before its call of find_recursive_patterns_in.
find_recursive_patterns_start ==
    Traversal(<<CallIn(GRAMMAR_ENTRYPOINT_RULE)>>, <<>>, NoRules, FALSE)

Contains(seq, x) == \E i \in 1..Len(seq) : seq[i] = x

\* `treated_recursives` after the name was inserted in the list of the parent.
treated_recursives_insert(treated_recursives, parent_name, name) ==
    IF parent_name \in DOMAIN treated_recursives
    THEN [treated_recursives EXCEPT ![parent_name] = @ \cup {name}]
    ELSE [n \in DOMAIN treated_recursives \cup {parent_name} |->
             IF n = parent_name THEN {name} ELSE treated_recursives[n]]

\* A faulty find_recursive_patterns_in, without the test of line 182: the
\* name of a builtin or external pattern is pushed and looked up as a rule.
find_recursive_patterns_in_of_any_name(pst, t, pattern_name) ==
    IF pattern_name \notin DOMAIN pst
    THEN Traversal(<<>>, Append(t.path, pattern_name), t.treated_recursives, TRUE)
    ELSE Traversal(<<CallList(pst[pattern_name].value), CallPop>> \o Tail(t.stack),
                   Append(t.path, pattern_name), t.treated_recursives, FALSE)

find_recursive_patterns_in(pst, t, pattern_name) ==
    IF is_valid_builtin_pattern(pattern_name) \/ is_external_pattern_name(pattern_name)
    THEN Traversal(Tail(t.stack), t.path, t.treated_recursives, FALSE)
    ELSE IF pattern_name \notin DOMAIN pst
    THEN Traversal(<<>>, Append(t.path, pattern_name), t.treated_recursives, TRUE)
    ELSE Traversal(<<CallList(pst[pattern_name].value), CallPop>> \o Tail(t.stack),
                   Append(t.path, pattern_name), t.treated_recursives, FALSE)

build_patterns_list(pst, t, piece_value) ==
    CASE piece_value.tag = "CstString" ->
            Traversal(Tail(t.stack), t.path, t.treated_recursives, FALSE)
      [] piece_value.tag = "Rule" ->
            IF Contains(t.path, piece_value.name)
            THEN Traversal(Tail(t.stack), t.path,
                     treated_recursives_insert(t.treated_recursives,
                         t.path[Len(t.path)], piece_value.name), FALSE)
            ELSE Traversal(<<CallIn(piece_value.name)>> \o Tail(t.stack),
                           t.path, t.treated_recursives, FALSE)
      [] piece_value.tag = "Group" ->
            Traversal(<<CallList(piece_value.inner.value)>> \o Tail(t.stack),
                      t.path, t.treated_recursives, FALSE)
      [] piece_value.tag \in {"Suite", "Union"} ->
            Traversal([i \in 1..Len(piece_value.pieces) |->
                          CallList(piece_value.pieces[i].value)] \o Tail(t.stack),
                      t.path, t.treated_recursives, FALSE)

\* The next pending call is made.
traversal_step(pst, t) ==
    CASE t.stack[1].call = "in" ->
            find_recursive_patterns_in(pst, t, t.stack[1].pattern_name)
      [] t.stack[1].call = "list" ->
            build_patterns_list(pst, t, t.stack[1].piece_value)
      [] t.stack[1].call = "pop" ->
            Traversal(Tail(t.stack), Take(t.path, Len(t.path) - 1),
                      t.treated_recursives, FALSE)

RECURSIVE traversal_run(_, _)
traversal_run(pst, t) ==
    IF t.stack = <<>> THEN t ELSE traversal_run(pst, traversal_step(pst, t))

\* Ok(rec), or the panic of `unwrap` on a name that is not declared.
find_recursive_patterns_of(t) ==
    IF t.panicked THEN Panic("called Option::unwrap() on a None value")
    ELSE Ok(t.treated_recursives)

find_recursive_patterns(pst) ==
    find_recursive_patterns_of(traversal_run(pst, find_recursive_patterns_start))

\* gen_rust_token_stream: every rule without an entry gets an empty one.
recursive_paths_of(pst, rec) ==
    [name \in DOMAIN pst \cup DOMAIN rec |->
        IF name \in DOMAIN rec THEN rec[name] ELSE {}]

\* A faulty loop of lines 22 to 26: no entry is added.
recursive_paths_filled_for_none(recursive_paths, keys, i) == recursive_paths

\* The loop of lines 22 to 26, over the keys of the map in the order `keys`.
RECURSIVE recursive_paths_filled(_, _, _)
recursive_paths_filled(recursive_paths, keys, i) ==
    IF i > Len(keys) THEN recursive_paths
    ELSE recursive_paths_filled(
             IF keys[i] \in DOMAIN recursive_paths THEN recursive_paths
             ELSE (keys[i] :> {}) @@ recursive_paths,
             keys, i + 1)

(***************************************************************************)
(* generators/rust.rs: list_silent_patterns                                *)
(*                                                                         *)
(* A check returns Ok(<<answer, silent_patterns>>); a recursion deeper     *)
(* than MaxDepth is taken as one that never returns (a stack overflow).    *)
(* No grammar checked here has more than MaxDepth rules: a deeper          *)
(* recursion has entered a rule twice, and a rule entered twice is entered *)
(* again, since the pieces before the reference stay silent as             *)
(* silent_patterns grows.                                                  *)
(***************************************************************************)

MaxDepth == 3

StackOverflow == [tag |-> "StackOverflow"]

RECURSIVE check_pattern_silence(_, _, _, _)
RECURSIVE is_silent_piece(_, _, _, _)
RECURSIVE all_silent_pieces(_, _, _, _, _)

pattern_silence_checked(silent_patterns, name, r) ==
    IF r.tag # "Ok" THEN r
    ELSE IF r.val[1] THEN Ok(<<TRUE, r.val[2] \cup {name}>>)
    ELSE Ok(<<FALSE, r.val[2]>>)

check_pattern_silence(pst, silent_patterns, name, depth) ==
    IF depth > MaxDepth THEN StackOverflow
    ELSE IF name \in silent_patterns THEN Ok(<<TRUE, silent_patterns>>)
    ELSE IF is_builtin_pattern_name(name) THEN Ok(<<FALSE, silent_patterns>>)
    ELSE IF name \notin DOMAIN pst THEN Panic("key not found in the map of patterns")
    ELSE pattern_silence_checked(silent_patterns, name,
             is_silent_piece(pst, silent_patterns, pst[name], depth + 1))

is_silent_piece(pst, silent_patterns, piece, depth) ==
    IF piece.is_silent THEN Ok(<<TRUE, silent_patterns>>)
    ELSE CASE piece.value.tag = "CstString" -> Ok(<<FALSE, silent_patterns>>)
           [] piece.value.tag = "Rule" ->
                 check_pattern_silence(pst, silent_patterns, piece.value.name, depth)
           [] piece.value.tag = "Group" ->
                 is_silent_piece(pst, silent_patterns, piece.value.inner, depth)
           [] piece.value.tag \in {"Suite", "Union"} ->
                 all_silent_pieces(pst, silent_patterns, piece.value.pieces, 1, depth)

\* `pieces.iter().all(..)`, which stops at the first piece that is not silent.
all_silent_next(pst, pieces, i, depth, r) ==
    IF r.tag # "Ok" THEN r
    ELSE IF ~r.val[1] THEN r
    ELSE all_silent_pieces(pst, r.val[2], pieces, i + 1, depth)

all_silent_pieces(pst, silent_patterns, pieces, i, depth) ==
    IF i > Len(pieces) THEN Ok(<<TRUE, silent_patterns>>)
    ELSE all_silent_next(pst, pieces, i, depth,
             is_silent_piece(pst, silent_patterns, pieces[i], depth))

\* The loop of list_silent_patterns over the keys of the map, in an order
\* that a HashMap does not fix.
RECURSIVE list_silent_patterns_from(_, _, _, _)

\* A faulty list_silent_patterns_next: the loop ends at the first rule that
\* is not silent.
list_silent_patterns_next_until_loud(pst, keys, i, r) ==
    IF r.tag # "Ok" THEN r
    ELSE IF ~r.val[1] THEN Ok(r.val[2])
    ELSE list_silent_patterns_from(pst, keys, i + 1, r.val[2])

list_silent_patterns_next(pst, keys, i, r) ==
    IF r.tag # "Ok" THEN r
    ELSE list_silent_patterns_from(pst, keys, i + 1, r.val[2])

list_silent_patterns_from(pst, keys, i, silent_patterns) ==
    IF i > Len(keys) THEN Ok(silent_patterns)
    ELSE list_silent_patterns_next(pst, keys, i,
             check_pattern_silence(pst, silent_patterns, keys[i], 0))

list_silent_patterns(pst, keys) == list_silent_patterns_from(pst, keys, 1, {})

\* The orders in which the keys of a map may be iterated.
KeyOrders(map) ==
    { keys \in [1..Cardinality(DOMAIN map) -> DOMAIN map] :
        \A i, j \in 1..Cardinality(DOMAIN map) : keys[i] = keys[j] => i = j }

(***************************************************************************)
(* generators/rust.rs: the InternalState built by gen_rust_token_stream    *)
(***************************************************************************)

\* The state with which gen_rust_token_stream starts (lines 12 to 20).
InternalState(recursive_paths, silent_patterns) ==
    [recursive_paths |-> recursive_paths, cst_string_types |-> << >>,
     cst_string_counters |-> << >>, used_builtin_patterns |-> {},
     pattern_types |-> << >>, silent_patterns |-> silent_patterns,
     highest_union_used |-> 0]

(***************************************************************************)
(* generators/rust.rs: format_str_type.  An identifier is a tuple of       *)
(* characters, as a string is.                                             *)
(***************************************************************************)

ALPHABET == <<"A", "B", "C", "D", "E", "F", "G", "H", "I", "J", "K", "L", "M", "N", "O", "P", "Q", "R", "S", "T", "U", "V", "W", "X", "Y", "Z">>

Lowercase == {"a", "b", "c", "d", "e", "f", "g", "h", "i", "j", "k", "l", "m",
              "n", "o", "p", "q", "r", "s", "t", "u", "v", "w", "x", "y", "z"}

DIGITS == <<"0", "1", "2", "3", "4", "5", "6", "7", "8", "9">>

LOWER_ALPHABET == <<"a", "b", "c", "d", "e", "f", "g", "h", "i", "j", "k", "l", "m", "n", "o", "p", "q", "r", "s", "t", "u", "v", "w", "x", "y", "z">>

\* char::to_uppercase, on ASCII.
to_uppercase(c) ==
    IF c \in Lowercase
    THEN <<ALPHABET[CHOOSE i \in 1..26 : LOWER_ALPHABET[i] = c]>>
    ELSE <<c>>

\* usize::to_string
RECURSIVE to_string(_)
to_string(n) ==
    IF n < 10 THEN <<DIGITS[n + 1]>>
    ELSE to_string(n \div 10) \o <<DIGITS[(n % 10) + 1]>>

\* `c as u8`, for the ASCII characters without a name of their own.
as_u8(c) ==
    CASE c = "\"" -> 34 [] c = "#" -> 35 [] c = "$" -> 36 [] c = "%" -> 37
      [] c = "&" -> 38 [] c = "'" -> 39 [] c = ":" -> 58 [] c = "<" -> 60
      [] c = ">" -> 62 [] c = "?" -> 63 [] c = "|" -> 124 [] c = "~" -> 126

char_name(c) ==
    CASE c = "+" -> <<"P", "l", "u", "s">>
      [] c = "-" -> <<"L", "e", "s", "s">>
      [] c = "*" -> <<"M", "u", "l", "t", "i", "p", "l", "y">>
      [] c = "/" -> <<"D", "i", "v", "i", "d", "e">>
      [] c = "(" -> <<"O", "p", "e", "n", "i", "n", "g", "P", "a", "r", "e", "n", "t", "h", "e", "s", "i", "s">>
      [] c = ")" -> <<"C", "l", "o", "s", "i", "n", "g", "P", "a", "r", "e", "n", "t", "h", "e", "s", "i", "s">>
      [] c = "[" -> <<"O", "p", "e", "n", "i", "n", "g", "B", "r", "a", "c", "k", "e", "t">>
      [] c = "]" -> <<"C", "l", "o", "s", "i", "n", "g", "B", "r", "a", "c", "k", "e", "t">>
      [] c = "{" -> <<"O", "p", "e", "n", "i", "n", "g", "B", "r", "a", "c", "e">>
      [] c = "}" -> <<"C", "l", "o", "s", "i", "n", "g", "B", "r", "a", "c", "e">>
      [] c = "\\" -> <<"B", "a", "c", "k", "s", "l", "a", "s", "h">>
      [] c = "@" -> <<"A", "t">>
      [] c = "=" -> <<"E", "q", "u", "a", "l">>
      [] c = "!" -> <<"B", "a", "n", "g">>
      [] c = "^" -> <<"C", "i", "r", "c", "u", "m", "f", "l", "e", "x", "A", "c", "c", "e", "n", "t">>
      [] c = "," -> <<"C", "o", "m", "m", "a">>
      [] c = "." -> <<"D", "o", "t">>
      [] c = ";" -> <<"S", "e", "m", "i", "C", "o", "l", "o", "n">>
      [] OTHER -> <<"C", "h", "a", "r">> \o to_string(as_u8(c))

RECURSIVE format_str_typename(_, _, _, _)

\* One turn of the loop over the characters of the string.
format_str_char(string, i, got_space, typename, c) ==
    IF is_whitespace(c)
    THEN format_str_typename(string, i + 1, TRUE,
             IF got_space THEN Append(typename, "_") ELSE typename)
    ELSE IF is_alphanumeric(c)
    THEN format_str_typename(string, i + 1, FALSE,
             typename \o (IF got_space THEN to_uppercase(c) ELSE <<c>>))
    ELSE IF c = "_"
    THEN format_str_typename(string, i + 1, FALSE, Append(typename, "_"))
    ELSE format_str_typename(string, i + 1, FALSE,
             typename \o <<"_", "_">> \o char_name(c) \o <<"_", "_">>)

format_str_typename(string, i, got_space, typename) ==
    IF i > Len(string) THEN typename
    ELSE format_str_char(string, i, got_space, typename, string[i])

cst_string_counter(cst_string_counters, string) ==
    IF string \in DOMAIN cst_string_counters THEN cst_string_counters[string] ELSE 0

\* The identifier, and the counters after the call.
format_str_type(cst_string_counters, string) ==
    [ident |-> <<"S", "t", "r">>
               \o (IF cst_string_counter(cst_string_counters, string) > 0
                   THEN to_string(cst_string_counter(cst_string_counters, string))
                   ELSE <<>>)
               \o <<"_">> \o format_str_typename(string, 1, FALSE, <<>>),
     cst_string_counters |->
         (string :> (cst_string_counter(cst_string_counters, string) + 1))
             @@ cst_string_counters]

(***************************************************************************)
(* generators/rust.rs: the matched types.  A type is a record; the result  *)
(* of an operator is the Option of a type with the state after the call.   *)
(***************************************************************************)

StringsType(ident) == [t |-> "strings", ident |-> ident]

MatchedType(name) == [t |-> "matched", name |-> name]

RcType(of) == [t |-> "Rc", of |-> of]

VecType(of) == [t |-> "Vec", of |-> of]

OptionType(of) == [t |-> "Option", of |-> of]

TupleType(items) == [t |-> "tuple", items |-> items]

\* super::unions::Sw<n><args>
SwType(n, args) == [t |-> "Sw", n |-> n, args |-> args]

Typed(ty, st) == [ty |-> ty, st |-> st]

RECURSIVE gen_rust_pattern_piece_type(_, _, _)
RECURSIVE gen_rust_pattern_piece_value_type(_, _, _)
RECURSIVE pieces_types(_, _, _, _, _)

cst_string_registered(st, string, f) ==
    Typed(Some(StringsType(f.ident)),
          [st EXCEPT !.cst_string_counters = f.cst_string_counters,
                     !.cst_string_types = (string :> f.ident) @@ st.cst_string_types])

cst_string_type(st, string) ==
    IF string \in DOMAIN st.cst_string_types
    THEN Typed(Some(StringsType(st.cst_string_types[string])), st)
    ELSE cst_string_registered(st, string, format_str_type(st.cst_string_counters, string))

pattern_type_of(st, visiting, name) ==
    IF is_builtin_pattern_name(name) THEN Typed(Some(MatchedType(name)), st)
    ELSE IF name \in st.silent_patterns THEN Typed(None, st)
    ELSE IF visiting \notin DOMAIN st.recursive_paths
    THEN Panic("key not found in recursive_paths")
    ELSE IF name \in st.recursive_paths[visiting]
    THEN Typed(Some(RcType(MatchedType(name))), st)
    ELSE Typed(Some(MatchedType(name)), st)

\* `.map(..).filter_map(|piece| piece)`: the types of the pieces that have one.
pieces_typed(visiting, pieces, i, types, r) ==
    IF "tag" \in DOMAIN r THEN r
    ELSE pieces_types(r.st, visiting, pieces, i + 1,
                      IF r.ty = None THEN types ELSE Append(types, r.ty.val))

pieces_types(st, visiting, pieces, i, types) ==
    IF i > Len(pieces) THEN [types |-> types, st |-> st]
    ELSE pieces_typed(visiting, pieces, i, types,
             gen_rust_pattern_piece_type(st, visiting, pieces[i]))

suite_type(r) ==
    IF "tag" \in DOMAIN r THEN r
    ELSE IF r.types = <<>> THEN Typed(None, r.st)
    ELSE IF Len(r.types) = 1 THEN Typed(Some(r.types[1]), r.st)
    ELSE Typed(Some(TupleType(r.types)), r.st)

union_type(pieces, r) ==
    IF "tag" \in DOMAIN r THEN r
    ELSE IF pieces = <<>> THEN Typed(None, r.st)
    ELSE Typed(Some(SwType(Len(pieces), r.types)),
               IF Len(pieces) > r.st.highest_union_used
               THEN [r.st EXCEPT !.highest_union_used = Len(pieces)]
               ELSE r.st)

gen_rust_pattern_piece_value_type(st, visiting, value) ==
    CASE value.tag = "CstString" -> cst_string_type(st, value.s)
      [] value.tag = "Rule" -> pattern_type_of(st, visiting, value.name)
      [] value.tag = "Group" -> gen_rust_pattern_piece_type(st, visiting, value.inner)
      [] value.tag = "Suite" ->
            suite_type(pieces_types(st, visiting, value.pieces, 1, <<>>))
      [] value.tag = "Union" ->
            union_type(value.pieces, pieces_types(st, visiting, value.pieces, 1, <<>>))

piece_type_repeated(piece, r) ==
    IF "tag" \in DOMAIN r THEN r
    ELSE IF r.ty = None THEN r
    ELSE CASE piece.repetition = None -> r
           [] piece.repetition \in {Some("Any"), Some("OneOrMore")} ->
                 Typed(Some(VecType(r.ty.val)), r.st)
           [] piece.repetition = Some("Optional") ->
                 Typed(Some(OptionType(r.ty.val)), r.st)

gen_rust_pattern_piece_type(st, visiting, piece) ==
    IF piece.is_silent THEN Typed(None, st)
    ELSE piece_type_repeated(piece,
             gen_rust_pattern_piece_value_type(st, visiting, piece.value))

gen_rust_pattern_type(st, visiting, pattern) ==
    gen_rust_pattern_piece_type(st, visiting, pattern)

\* One turn of the loop of gen_rust_token_stream over the rules (lines 31 to
\* 47): the type of the rule is recorded in pattern_types.
pattern_type_inserted(name, r) ==
    IF "tag" \in DOMAIN r THEN r
    ELSE Ok([r.st EXCEPT !.pattern_types = (name :> r.ty) @@ r.st.pattern_types])

pattern_types_turn(pst, st, name) ==
    pattern_type_inserted(name, gen_rust_pattern_type(st, name, pst[name]))

RECURSIVE pattern_types_from(_, _, _, _)

pattern_types_next(pst, keys, i, r) ==
    IF r.tag # "Ok" THEN r ELSE pattern_types_from(pst, keys, i + 1, r.val)

pattern_types_from(pst, keys, i, st) ==
    IF i > Len(keys) THEN Ok(st)
    ELSE pattern_types_next(pst, keys, i, pattern_types_turn(pst, st, keys[i]))

state_with_silent_patterns(keys, rec, silent) ==
    IF silent.tag # "Ok" THEN silent
    ELSE Ok(InternalState(recursive_paths_filled(rec, keys, 1), silent.val))

state_with_recursive_paths(pst, keys, rec) ==
    IF rec.tag # "Ok" THEN rec
    ELSE state_with_silent_patterns(keys, rec.val, list_silent_patterns(pst, keys))

\* The state after the analyses (lines 12 to 26), or the failure of one.
analysed_state(pst, keys) ==
    state_with_recursive_paths(pst, keys, find_recursive_patterns(pst))

state_with_pattern_types(pst, keys, r) ==
    IF r.tag # "Ok" THEN r ELSE pattern_types_from(pst, keys, 1, r.val)

\* The state with which the matchers are emitted, `keys` being the order in
\* which the rules are iterated; or the failure of an analysis.
gen_rust_token_stream_state(pst, keys) ==
    state_with_pattern_types(pst, keys, analysed_state(pst, keys))

(***************************************************************************)
(* generators/rust.rs: the matchers.  An operator gives the value of the   *)
(* code that the generator emits for a piece, run on `input` at `offset`:  *)
(* Ok(Pair(value, consumed)), Err(PegError), or one of                     *)
(*   Diverge       the code recurses or loops more than MaxFuel times;     *)
(*   CompileError  the code takes apart as a pair a value that is none,    *)
(*                 or calls a matcher that is not emitted.                 *)
(***************************************************************************)

MaxFuel == 12

Diverge == [tag |-> "Diverge"]

CompileError == [tag |-> "CompileError"]

Pair(fst, snd) == [fst |-> fst, snd |-> snd]

IsPair(v) == DOMAIN v = {"fst", "snd"}

PegError(offset, content) == [offset |-> offset, content |-> content]

Unit == [v |-> "()"]

StrValue(s) == [v |-> "Str", s |-> s]

BuiltinValue(name, matched, at) ==
    [v |-> "builtin", name |-> name, matched |-> matched, at |-> at]

RuleValue(name, matched, at) ==
    [v |-> "rule", name |-> name, matched |-> matched, at |-> at]

RcValue(data) == [v |-> "Rc", data |-> data]

VecValue(items) == [v |-> "Vec", items |-> items]

TupleValue(items) == IF items = <<>> THEN Unit ELSE [v |-> "tuple", items |-> items]

RECURSIVE enum_variant_letters(_)
enum_variant_letters(i) ==
    IF i = 0 THEN <<>>
    ELSE enum_variant_letters((i - (i % 26)) \div 26) \o <<ALPHABET[(i % 26) + 1]>>

get_enum_variant(i) == IF i = 0 THEN <<"A">> ELSE enum_variant_letters(i)

\* unions::Sw<n>::<variant>(data)
SwValue(n, i, data) ==
    [v |-> "Sw", n |-> n, variant |-> get_enum_variant(i), data |-> data]

ControlChars == {"\t", "\n", "\r"}

builtin_cond(name, nc) ==
    CASE name = <<"B", "_", "A", "N", "Y">> -> TRUE
      [] name = <<"B", "_", "N", "E", "W", "L", "I", "N", "E", "_", "C", "R">> -> nc = "\r"
      [] name = <<"B", "_", "N", "E", "W", "L", "I", "N", "E", "_", "L", "F">> -> nc = "\n"
      [] name = <<"B", "_", "D", "O", "U", "B", "L", "E", "_", "Q", "U", "O", "T", "E">> -> nc = "\""
      [] name = <<"B", "_", "A", "S", "C", "I", "I">> -> TRUE
      [] name = <<"B", "_", "A", "S", "C", "I", "I", "_", "A", "L", "P", "H", "A", "B", "E", "T", "I", "C">> -> nc \in Letters
      [] name = <<"B", "_", "A", "S", "C", "I", "I", "_", "A", "L", "P", "H", "A", "N", "U", "M", "E", "R", "I", "C">> -> nc \in Letters \cup Digits
      [] name \in {<<"B", "_", "A", "S", "C", "I", "I", "_", "C", "O", "N", "T", "R", "O", "L">>, <<"B", "_", "C", "O", "N", "T", "R", "O", "L">>} -> nc \in ControlChars
      [] name \in {<<"B", "_", "A", "S", "C", "I", "I", "_", "D", "I", "G", "I", "T">>, <<"B", "_", "N", "U", "M", "E", "R", "I", "C">>} -> nc \in Digits
      [] name = <<"B", "_", "A", "S", "C", "I", "I", "_", "G", "R", "A", "P", "H", "I", "C">> -> nc \notin ControlChars \cup {" "}
      [] name = <<"B", "_", "A", "S", "C", "I", "I", "_", "H", "E", "X", "D", "I", "G", "I", "T">> ->
            nc \in Digits \cup {"a", "b", "c", "d", "e", "f", "A", "B", "C", "D", "E", "F"}
      [] name \in {<<"B", "_", "A", "S", "C", "I", "I", "_", "L", "O", "W", "E", "R", "C", "A", "S", "E">>, <<"B", "_", "L", "O", "W", "E", "R", "C", "A", "S", "E">>} -> nc \in Lowercase
      [] name = <<"B", "_", "A", "S", "C", "I", "I", "_", "P", "U", "N", "C", "T", "U", "A", "T", "I", "O", "N">> ->
            nc \notin ControlChars \cup {" "} \cup Letters \cup Digits
      [] name \in {<<"B", "_", "A", "S", "C", "I", "I", "_", "U", "P", "P", "E", "R", "C", "A", "S", "E">>, <<"B", "_", "U", "P", "P", "E", "R", "C", "A", "S", "E">>} -> nc \in Letters \ Lowercase
      [] name \in {<<"B", "_", "A", "S", "C", "I", "I", "_", "W", "H", "I", "T", "E", "S", "P", "A", "C", "E">>, <<"B", "_", "W", "H", "I", "T", "E", "S", "P", "A", "C", "E">>} -> nc \in ControlChars \cup {" "}

gen_builtin_matcher(name, inp, offset) ==
    IF name \notin BuiltinPatterns
    THEN Panic("internal error: entered unreachable code")
    ELSE IF inp # <<>> /\ builtin_cond(name, inp[1])
    THEN Ok(Pair(BuiltinValue(name, inp[1], offset), 1))
    ELSE Err(PegError(offset, [kind |-> "FailedToMatchBuiltinPattern", name |-> name]))

RECURSIVE gen_rust_pattern_matcher(_, _, _, _, _)
RECURSIVE gen_rust_pattern_piece_matcher(_, _, _, _, _, _)
RECURSIVE gen_rust_pattern_piece_value_matcher(_, _, _, _, _, _)
RECURSIVE suite_storage(_, _, _, _, _, _, _, _, _)
RECURSIVE union_tries(_, _, _, _, _, _, _, _, _)
RECURSIVE any_loop(_, _, _, _, _, _, _, _)
RECURSIVE one_or_more_loop(_, _, _, _, _, _, _, _, _)

\* A constant string: the value is the type of the string when it has one.
cst_string_matcher(g, string, inp, offset) ==
    IF starts_with(inp, string)
    THEN Ok(Pair(IF string \in DOMAIN g.state.cst_string_types THEN StrValue(string) ELSE Unit,
                 Len(string)))
    ELSE Err(PegError(offset, [kind |-> "ExpectedCstString", s |-> string]))

\* `.map(|(data, consumed)| (std::rc::Rc::new(data), consumed))`
pattern_call_in_rc(r) ==
    IF r.tag # "Ok" THEN r
    ELSE IF ~IsPair(r.val) THEN CompileError
    ELSE Ok(Pair(RcValue(r.val.fst), r.val.snd))

\* A reference to a pattern: a builtin matcher, or the call `ident(input, offset)`.
pattern_call(g, visiting, name, inp, offset, fuel) ==
    IF is_builtin_pattern_name(name) THEN gen_builtin_matcher(name, inp, offset)
    ELSE IF visiting \notin DOMAIN g.state.recursive_paths
    THEN Panic("key not found in recursive_paths")
    ELSE IF name \notin DOMAIN g.pst THEN CompileError
    ELSE IF fuel = 0 THEN Diverge
    ELSE IF name \in g.state.recursive_paths[visiting]
    THEN pattern_call_in_rc(gen_rust_pattern_matcher(g, name, inp, offset, fuel - 1))
    ELSE gen_rust_pattern_matcher(g, name, inp, offset, fuel - 1)

gen_rust_pattern_piece_value_matcher(g, visiting, value, inp, offset, fuel) ==
    CASE value.tag = "CstString" -> cst_string_matcher(g, value.s, inp, offset)
      [] value.tag = "Rule" -> pattern_call(g, visiting, value.name, inp, offset, fuel)
      [] value.tag = "Group" ->
            gen_rust_pattern_piece_matcher(g, visiting, value.inner, inp, offset, fuel)
      [] value.tag = "Suite" ->
            suite_storage(g, visiting, value.pieces, 1, inp, offset, 0, <<>>, fuel)
      [] value.tag = "Union" ->
            union_tries(g, visiting, value.pieces, 1, inp, offset, None, <<>>, fuel)

\* A Suite: whether the result of the piece is kept (`p<i>`) or dropped (`_`).
suite_piece_is_silent(g, piece) ==
    \/ piece.is_silent
    \/ piece.value.tag = "Rule" /\ piece.value.name \in g.state.silent_patterns

suite_stored(g, visiting, pieces, i, inp, offset, consumed, used, fuel, r) ==
    IF r.tag # "Ok" THEN r
    ELSE IF ~IsPair(r.val) THEN CompileError
    ELSE suite_storage(g, visiting, pieces, i + 1, Drop(inp, r.val.snd),
                       offset + r.val.snd, consumed + r.val.snd,
                       IF suite_piece_is_silent(g, pieces[i]) THEN used
                       ELSE Append(used, r.val.fst),
                       fuel)

suite_storage(g, visiting, pieces, i, inp, offset, consumed, used, fuel) ==
    IF i > Len(pieces)
    THEN Ok(Pair(IF Len(used) = 1 THEN used[1] ELSE TupleValue(used), consumed))
    ELSE suite_stored(g, visiting, pieces, i, inp, offset, consumed, used, fuel,
             gen_rust_pattern_piece_matcher(g, visiting, pieces[i], inp, offset, fuel))

\* A faulty union_candidate: an alternative that consumes as much as the
\* candidate replaces it.
union_candidate_keeps_latest(pieces, i, candidate, r) ==
    IF candidate = None \/ r.val.snd >= candidate.val.snd
    THEN Some(Pair(SwValue(Len(pieces), i - 1, r.val.fst), r.val.snd))
    ELSE candidate

\* A Union: the candidate after the i-th alternative was tried.
union_candidate(pieces, i, candidate, r) ==
    IF candidate = None \/ r.val.snd > candidate.val.snd
    THEN Some(Pair(SwValue(Len(pieces), i - 1, r.val.fst), r.val.snd))
    ELSE candidate

union_tried(g, visiting, pieces, i, inp, offset, candidate, errors, fuel, r) ==
    IF r.tag = "Err"
    THEN union_tries(g, visiting, pieces, i + 1, inp, offset, candidate,
                     Append(errors, r.err), fuel)
    ELSE IF r.tag # "Ok" THEN r
    ELSE IF ~IsPair(r.val) THEN CompileError
    ELSE union_tries(g, visiting, pieces, i + 1, inp, offset,
                     union_candidate(pieces, i, candidate, r), errors, fuel)

union_tries(g, visiting, pieces, i, inp, offset, candidate, errors, fuel) ==
    IF i > Len(pieces)
    THEN IF candidate = None
         THEN Err(PegError(offset, [kind |-> "NoMatchInUnion", errors |-> errors]))
         ELSE Ok(candidate.val)
    ELSE union_tried(g, visiting, pieces, i, inp, offset, candidate, errors, fuel,
             gen_rust_pattern_piece_matcher(g, visiting, pieces[i], inp, offset, fuel))

\* `matcher`: the matcher of the value, its result replaced by () when the
\* piece is silent.
silent_mapped(piece, r) ==
    IF ~piece.is_silent \/ r.tag # "Ok" THEN r
    ELSE IF ~IsPair(r.val) THEN CompileError
    ELSE Ok(Pair(Unit, r.val.snd))

piece_matcher_once(g, visiting, piece, inp, offset, fuel) ==
    silent_mapped(piece,
        gen_rust_pattern_piece_value_matcher(g, visiting, piece.value, inp, offset, fuel))

\* A faulty any_looped: the failure of the first attempt is returned.
any_looped_fails_without_success(g, visiting, piece, inp, offset, consumed, out, fuel, r) ==
    IF r.tag = "Err" THEN (IF consumed = 0 THEN r ELSE Ok(Pair(VecValue(out), consumed)))
    ELSE IF r.tag # "Ok" THEN r
    ELSE IF ~IsPair(r.val) THEN CompileError
    ELSE any_loop(g, visiting, piece, Drop(inp, r.val.snd), offset,
                  consumed + r.val.snd,
                  IF piece.is_silent THEN out ELSE Append(out, r.val.fst),
                  fuel - 1)

\* PatternRepetition::Any
any_looped(g, visiting, piece, inp, offset, consumed, out, fuel, r) ==
    IF r.tag = "Err" THEN Ok(Pair(VecValue(out), consumed))
    ELSE IF r.tag # "Ok" THEN r
    ELSE IF ~IsPair(r.val) THEN CompileError
    ELSE any_loop(g, visiting, piece, Drop(inp, r.val.snd), offset,
                  consumed + r.val.snd,
                  IF piece.is_silent THEN out ELSE Append(out, r.val.fst),
                  fuel - 1)

any_loop(g, visiting, piece, inp, offset, consumed, out, fuel) ==
    IF fuel = 0 THEN Diverge
    ELSE any_looped(g, visiting, piece, inp, offset, consumed, out, fuel,
             piece_matcher_once(g, visiting, piece, inp, offset, fuel))

\* PatternRepetition::OneOrMore
one_or_more_looped(g, visiting, piece, inp, offset, consumed, out, one_success, fuel, r) ==
    IF r.tag = "Err"
    THEN IF one_success THEN Ok(Pair(VecValue(out), consumed)) ELSE r
    ELSE IF r.tag # "Ok" THEN r
    ELSE IF ~IsPair(r.val) THEN CompileError
    ELSE one_or_more_loop(g, visiting, piece, Drop(inp, r.val.snd), offset,
                          consumed + r.val.snd,
                          IF piece.is_silent THEN out ELSE Append(out, r.val.fst),
                          TRUE, fuel - 1)

one_or_more_loop(g, visiting, piece, inp, offset, consumed, out, one_success, fuel) ==
    IF fuel = 0 THEN Diverge
    ELSE one_or_more_looped(g, visiting, piece, inp, offset, consumed, out,
             one_success, fuel,
             piece_matcher_once(g, visiting, piece, inp, offset, fuel))

\* PatternRepetition::Optional: `Ok(data) => Ok(Some(data))`, `data` being
\* the whole (value, consumed) of the matcher.
optional_matched(r) ==
    IF r.tag = "Ok" THEN Ok(Some(r.val))
    ELSE IF r.tag = "Err" THEN Ok(None)
    ELSE r

gen_rust_pattern_piece_matcher(g, visiting, piece, inp, offset, fuel) ==
    CASE piece.repetition = None ->
            piece_matcher_once(g, visiting, piece, inp, offset, fuel)
      [] piece.repetition = Some("Any") ->
            any_loop(g, visiting, piece, inp, offset, 0, <<>>, fuel)
      [] piece.repetition = Some("OneOrMore") ->
            one_or_more_loop(g, visiting, piece, inp, offset, 0, <<>>, FALSE, fuel)
      [] piece.repetition = Some("Optional") ->
            optional_matched(piece_matcher_once(g, visiting, piece, inp, offset, fuel))

\* The body of the function emitted for a pattern.
pattern_matcher_body(g, name, inp, offset, r) ==
    IF name \in g.state.silent_patterns THEN r
    ELSE IF r.tag # "Ok" THEN r
    ELSE IF ~IsPair(r.val) THEN CompileError
    ELSE IF name # GRAMMAR_ENTRYPOINT_RULE
    THEN Ok(Pair(RuleValue(name, r.val.fst, offset), r.val.snd))
    ELSE IF Len(inp) > r.val.snd
    THEN Err(PegError(r.val.snd, [kind |-> "ExpectedEndOfInput"]))
    ELSE Ok(Pair(RuleValue(name, r.val.fst, offset), r.val.snd))

gen_rust_pattern_matcher(g, name, inp, offset, fuel) ==
    pattern_matcher_body(g, name, inp, offset,
        gen_rust_pattern_piece_matcher(g, name, g.pst[name], inp, offset, fuel))

\* patterns::main(input, 0), the call made by exec.
patterns_main(pst, st, inp) ==
    gen_rust_pattern_matcher([pst |-> pst, state |-> st], GRAMMAR_ENTRYPOINT_RULE,
                             inp, 0, MaxFuel)

(***************************************************************************)
(* The generator and the emitted entry point: the grammars of              *)
(* MatchGrammars are parsed, gen_rust_token_stream builds its state, and   *)
(* exec runs the matcher of `main` on an input of at most MaxInputLen      *)
(* characters, with at most MaxNesting opening parentheses.                *)
(***************************************************************************)

MaxInputLen == 5

MaxNesting == 2

GrammarOf(text) == parse_peg_nocheck(text).val.rules

ParenGrammarText == <<"m", "a", "i", "n", " ", "=", " ", "\"", "(", "\"", " ", "m", "a", "i", "n", " ", "\"", ")", "\"", " ", "|", " ", "\"", "x", "\"">>

MatchGrammars ==
    { ParenGrammarText,
      <<"m", "a", "i", "n", " ", "=", " ", "_", ":", "\"", "a", "\"">>,
      <<"m", "a", "i", "n", " ", "=", " ", "s", "\n", "s", " ", "=", " ", "_", ":", "\"", "a", "\"", " ", "_", ":", "\"", "b", "\"">>,
      <<"m", "a", "i", "n", " ", "=", " ", "\"", "a", "\"", " ", "u", " ", "\"", "c", "\"", "*", "\n", "u", " ", "=", " ", "\"", "b", "\"", " ", "|", " ", "\"", "b", "\"", " ", "\"", "c", "\"", " ", "|", " ", "y", "\n", "y", " ", "=", " ", "\"", "b", "\"", " ", "\"", "c", "\"">>,
      <<"m", "a", "i", "n", " ", "=", " ", "\"", "c", "\"", "*", " ", "w", "\n", "w", " ", "=", " ", "B", "_", "A", "S", "C", "I", "I", "_", "A", "L", "P", "H", "A", "B", "E", "T", "I", "C", "+">>,
      <<"m", "a", "i", "n", " ", "=", " ", "_", ":", "\"", "a", "\"", "*", " ", "(", "\"", "b", "\"", " ", "\"", "c", "\"", ")", "*">>,
      <<"m", "a", "i", "n", " ", "=", " ", "o", " ", "\"", "b", "\"", "\n", "o", " ", "=", " ", "\"", "a", "\"", "?">> }

StringsOver(chars, n) == UNION { [1..k -> chars] : k \in 0..n }

Opened(s) == Cardinality({ i \in DOMAIN s : s[i] = "(" })

MatchInputs ==
    StringsOver({"a", "b", "c"}, MaxInputLen)
        \cup { s \in StringsOver({"(", ")", "x"}, MaxInputLen) : Opened(s) <= MaxNesting }

InitMatch ==
    /\ mode = "exec"
    /\ rules \in { GrammarOf(text) : text \in MatchGrammars }
    /\ input \in MatchInputs
    /\ l = 0
    /\ multi_line_comment_opened = None
    /\ result = Running
    /\ shape = <<>>
    /\ state = <<>>
    /\ traversal = <<>>

\* gen_rust_token_stream, up to the state with which the matchers are emitted.
GenRustTokenStream ==
    /\ mode = "exec"
    /\ result = Running
    /\ state = <<>>
    /\ \E keys \in KeyOrders(rules) :
          \E o \in { gen_rust_token_stream_state(rules, keys) } :
              IF o.tag = "Ok"
              THEN state' = o.val /\ result' = result
              ELSE state' = state /\ result' = o
    /\ UNCHANGED <<mode, input, l, rules, multi_line_comment_opened, shape, traversal>>

\* exec(input), before it drops `consumed` from the result of the matcher.
Exec ==
    /\ mode = "exec"
    /\ result = Running
    /\ state # <<>>
    /\ result' = patterns_main(rules, state, input)
    /\ UNCHANGED <<mode, input, l, rules, multi_line_comment_opened, shape, state, traversal>>

NextMatch == GenRustTokenStream \/ Exec

SpecMatch == InitMatch /\ [][NextMatch]_vars

(***************************************************************************)
(* find_recursive_patterns, one call at a time, on every grammar of three  *)
(* rules whose contents are taken from RuleContents.                       *)
(***************************************************************************)

DeclaredNames == { <<"m", "a", "i", "n">>, <<"x">>, <<"y">> }

RuleContents ==
    { <<"\"", "a", "\"">> }
    \cup DeclaredNames \cup { <<"B", "_", "A", "N", "Y">>, <<"E", "_", "e", "x", "t">> }
    \cup { <<"(">> \o t \o <<")", " ", "|", " ", "\"", "a", "\"">> : t \in DeclaredNames }
    \cup { t \o <<" ">> \o u : t, u \in DeclaredNames }

AnalyzeGrammars ==
    { GrammarOf(Join(<<<<"m", "a", "i", "n", " ", "=", " ">> \o c1, <<"x", " ", "=", " ">> \o c2, <<"y", " ", "=", " ">> \o c3>>)) :
        c1 \in RuleContents, c2 \in RuleContents, c3 \in RuleContents }

InitAnalyze ==
    /\ mode = "find_recursive_patterns"
    /\ rules \in AnalyzeGrammars
    /\ input = <<>>
    /\ l = 0
    /\ multi_line_comment_opened = None
    /\ result = Running
    /\ shape = <<>>
    /\ state = <<>>
    /\ traversal = find_recursive_patterns_start

TraversalStep ==
    /\ mode = "find_recursive_patterns"
    /\ result = Running
    /\ traversal.stack # <<>>
    /\ traversal' = traversal_step(rules, traversal)
    /\ UNCHANGED <<mode, input, l, rules, multi_line_comment_opened, result, shape, state>>

\* find_recursive_patterns returns, and gen_rust_token_stream gives an empty
\* entry to every rule that has none: the result is `recursive_paths`.
TraversalReturn ==
    /\ mode = "find_recursive_patterns"
    /\ result = Running
    /\ traversal.stack = <<>>
    /\ result' = IF traversal.panicked THEN find_recursive_patterns_of(traversal)
                 ELSE Ok(recursive_paths_of(rules, traversal.treated_recursives))
    /\ UNCHANGED <<mode, input, l, rules, multi_line_comment_opened, shape, state, traversal>>

NextAnalyze == TraversalStep \/ TraversalReturn

SpecAnalyze == InitAnalyze /\ [][NextAnalyze]_vars

\* find_recursive_patterns is one sequential call: while a call is pending
\* the program makes it, and when none is left the function returns.
SpecAnalyzeFair == SpecAnalyze /\ WF_vars(NextAnalyze)

(***************************************************************************)
(* gen_rust_token_stream, one rule at a time, on every grammar of three    *)
(* rules whose contents are taken from MainContents, XContents and         *)
(* YContents: the analyses, the loop that gives each rule its matched      *)
(* type, and the declarations of the emitted module.                       *)
(***************************************************************************)

MainContents ==
    { <<"x", " ", "y">>,
      <<"\"", "a", "\"", " ", "(", "_", ":", "\"", "b", "\"", ")", " ", "x">>,
      <<"x", " ", "|", " ", "_", ":", "\"", "b", "\"", " ", "|", " ", "y">>,
      <<"_", ":", "(", "x", " ", "|", " ", "\"", "b", "\"", ")", " ", "y">>,
      <<"\"", "a", " ", "b", "\"", " ", "\"", "a", "B", "\"", " ", "x">>,
      <<"y", " ", "(", "x", ")", " ", "B", "_", "A", "N", "Y", "?">> }

XContents ==
    { <<"\"", "a", "\"">>,
      <<"_", ":", "\"", "a", "\"">>,
      <<"_", ":", "\"", "a", "\"", " ", "|", " ", "_", ":", "\"", "b", "\"">>,
      <<"\"", "a", "\"", " ", "|", " ", "\"", "a", " ", "b", "\"">>,
      <<"y">>,
      <<"_", ":", "y", "+", " ", "\"", "a", "B", "\"", "*">> }

YContents ==
    { <<"\"", "b", "\"">>,
      <<"_", ":", "\"", "b", "\"">>,
      <<"\"", "a", "B", "\"", " ", "\"", "b", "\"", "*">>,
      <<"\"", "a", "\"", " ", "|", " ", "\"", "b", "\"", " ", "|", " ", "\"", "c", "\"", " ", "|", " ", "\"", "a", "B", "\"">>,
      <<"_", ":", "\"", "a", "\"", " ", "B", "_", "A", "N", "Y">>,
      <<"x">> }

PlanGrammars ==
    { GrammarOf(<<"m", "a", "i", "n", " ", "=", " ">> \o m \o <<"\n", "x", " ", "=", " ">> \o x \o <<"\n", "y", " ", "=", " ">> \o y) :
          m \in MainContents, x \in XContents, y \in YContents }

\* The names that a pattern refers to.
RECURSIVE NamesIn(_)
NamesIn(p) ==
    CASE p.value.tag = "Rule" -> {p.value.name}
      [] p.value.tag = "Group" -> NamesIn(p.value.inner)
      [] p.value.tag \in {"Suite", "Union"} ->
            UNION { NamesIn(p.value.pieces[i]) : i \in 1..Len(p.value.pieces) }
      [] OTHER -> {}

\* The names of the builtin patterns for which a matcher is emitted: the
\* matchers of all the pieces are generated, those of silent pieces included.
used_builtin_patterns_of(pst) ==
    { n \in UNION { NamesIn(pst[name]) : name \in DOMAIN pst } : is_builtin_pattern_name(n) }

\* The declarations of the emitted module: the structs of `matched`, the
\* variants of the enum of the matched patterns, the structs of `strings`
\* (one for each entry of cst_string_types), the enums of `unions` and the
\* structs of the builtin patterns.
Declarations(pst, st) ==
    [pattern_types |-> { name \in DOMAIN st.pattern_types : st.pattern_types[name] # None },
     pattern_types_enum_variants |-> { name \in DOMAIN pst : name \notin st.silent_patterns },
     cst_string_types_expanded |-> st.cst_string_types,
     unions |-> 2..st.highest_union_used,
     builtin_patterns |-> used_builtin_patterns_of(pst)]

InitPlan ==
    /\ mode = "gen_rust_token_stream"
    /\ rules \in PlanGrammars
    /\ traversal \in { [keys |-> keys, i |-> 1] : keys \in KeyOrders(rules) }
    /\ input = <<>>
    /\ l = 0
    /\ multi_line_comment_opened = None
    /\ result = Running
    /\ shape = <<>>
    /\ state = <<>>

\* Lines 12 to 26: the state, with the tables of the two analyses.
Analyse ==
    /\ mode = "gen_rust_token_stream"
    /\ result = Running
    /\ state = <<>>
    /\ \E o \in { analysed_state(rules, traversal.keys) } :
          IF o.tag = "Ok"
          THEN state' = o.val /\ result' = result
          ELSE state' = state /\ result' = o
    /\ UNCHANGED <<mode, input, l, rules, multi_line_comment_opened, shape, traversal>>

\* Lines 28 to 48, one rule of the map.
GenRustPatternType ==
    /\ mode = "gen_rust_token_stream"
    /\ result = Running
    /\ state # <<>>
    /\ traversal.i <= Len(traversal.keys)
    /\ \E o \in { pattern_types_turn(rules, state, traversal.keys[traversal.i]) } :
          IF o.tag = "Ok"
          THEN state' = o.val /\ result' = result
          ELSE state' = state /\ result' = o
    /\ traversal' = [traversal EXCEPT !.i = @ + 1]
    /\ UNCHANGED <<mode, input, l, rules, multi_line_comment_opened, shape>>

\* Lines 50 to 173: the matchers are generated and the module is emitted.
Emit ==
    /\ mode = "gen_rust_token_stream"
    /\ result = Running
    /\ state # <<>>
    /\ traversal.i > Len(traversal.keys)
    /\ state' = [state EXCEPT !.used_builtin_patterns = used_builtin_patterns_of(rules)]
    /\ result' = Ok(Declarations(rules, state))
    /\ UNCHANGED <<mode, input, l, rules, multi_line_comment_opened, shape, traversal>>

NextPlan == Analyse \/ GenRustPatternType \/ Emit

SpecPlan == InitPlan /\ [][NextPlan]_vars

(***************************************************************************)
(* The two analyses with which gen_rust_token_stream builds its state, on  *)
(* every grammar of three rules whose contents are taken from              *)
(* SilenceContents, the rules being iterated in any order.                 *)
(***************************************************************************)

SilenceContents ==
    { <<"\"", "a", "\"">>, <<"_", ":", "\"", "a", "\"">>, <<"m", "a", "i", "n">>, <<"x">>, <<"y">>, <<"B", "_", "A", "N", "Y">>, <<"E", "_", "e", "x", "t">>,
      <<"_", ":", "\"", "a", "\"", " ", "x">>, <<"\"", "a", "\"", " ", "y">>, <<"_", ":", "\"", "a", "\"", " ", "|", " ", "(", "y", ")">> }

SilenceGrammars ==
    { GrammarOf(<<"m", "a", "i", "n", " ", "=", " ">> \o m \o <<"\n", "x", " ", "=", " ">> \o x \o <<"\n", "y", " ", "=", " ">> \o y) :
          m \in SilenceContents, x \in SilenceContents, y \in SilenceContents }

InitSilence ==
    /\ mode = "list_silent_patterns"
    /\ rules \in SilenceGrammars
    /\ traversal \in { [keys |-> keys, i |-> 1, silent_patterns |-> {}, rec |-> None] :
                          keys \in KeyOrders(rules) }
    /\ input = <<>>
    /\ l = 0
    /\ multi_line_comment_opened = None
    /\ result = Running
    /\ shape = <<>>
    /\ state = <<>>

\* Line 13: recursive_paths: find_recursive_patterns(pst).
FindRecursivePatterns ==
    /\ mode = "list_silent_patterns"
    /\ result = Running
    /\ traversal.rec = None
    /\ \E o \in { find_recursive_patterns(rules) } :
          IF o.tag = "Ok"
          THEN traversal' = [traversal EXCEPT !.rec = Some(o.val)] /\ result' = result
          ELSE traversal' = traversal /\ result' = o
    /\ UNCHANGED <<mode, input, l, rules, multi_line_comment_opened, shape, state>>

\* Line 18, one turn of the loop of list_silent_patterns.
CheckPatternSilence ==
    /\ mode = "list_silent_patterns"
    /\ result = Running
    /\ traversal.rec # None
    /\ traversal.i <= Len(traversal.keys)
    /\ \E o \in { check_pattern_silence(rules, traversal.silent_patterns,
                                        traversal.keys[traversal.i], 0) } :
          IF o.tag = "Ok"
          THEN /\ traversal' = [traversal EXCEPT !.i = @ + 1, !.silent_patterns = o.val[2]]
               /\ result' = result
          ELSE traversal' = traversal /\ result' = o
    /\ UNCHANGED <<mode, input, l, rules, multi_line_comment_opened, shape, state>>

\* Lines 20 to 26: the state holds the two tables.
Tables ==
    /\ mode = "list_silent_patterns"
    /\ result = Running
    /\ traversal.rec # None
    /\ traversal.i > Len(traversal.keys)
    /\ state' = InternalState(recursive_paths_filled(traversal.rec.val, traversal.keys, 1),
                              traversal.silent_patterns)
    /\ result' = Ok(traversal.silent_patterns)
    /\ UNCHANGED <<mode, input, l, rules, multi_line_comment_opened, shape, traversal>>

NextSilence == FindRecursivePatterns \/ CheckPatternSilence \/ Tables

SpecSilence == InitSilence /\ [][NextSilence]_vars

(***************************************************************************)
(* Properties of parse_peg_nocheck                                         *)
(***************************************************************************)

InputLines == lines(input)

\* The number of whitespace characters a line begins with.
LeadingBlanks(line) ==
    Cardinality({ i \in 1..Len(line) : \A j \in 1..i : is_whitespace(line[j]) })

\* The identifier a line begins with, after its indentation.
LeadingName(line) ==
    Take(Drop(line, LeadingBlanks(line)),
         Cardinality({ i \in 1..(Len(line) - LeadingBlanks(line)) :
             \A j \in 1..i : \/ is_alphanumeric(line[LeadingBlanks(line) + j])
                              \/ line[LeadingBlanks(line) + j] = "_" }))

\* The line is whitespace, `###`, whitespace.
IsMarkerLine(line) ==
    \E a \in 0..Len(line) :
        /\ a + 3 <= Len(line)
        /\ SubSeq(line, a + 1, a + 3) = <<"#", "#", "#">>
        /\ \A i \in 1..Len(line) : i \in (a + 1)..(a + 3) \/ is_whitespace(line[i])

\* The marker lines among the first k lines of the input.
MarkersIn(k) == { i \in 1..k : IsMarkerLine(InputLines[i]) }

\* A comment is open after the first k lines were read.
OpenAfter(k) == Cardinality(MarkersIn(k)) % 2 = 1

LastMarkerIn(k) == CHOOSE i \in MarkersIn(k) : \A j \in MarkersIn(k) : j <= i

\* The line is `<name> [whitespace] =` followed by anything.
IsRuleLine(line) ==
    /\ LeadingName(line) # <<>>
    /\ LeadingName(line)[1] \notin Digits
    /\ \E k \in (LeadingBlanks(line) + Len(LeadingName(line)) + 1)..Len(line) :
          /\ line[k] = "="
          /\ \A i \in (LeadingBlanks(line) + Len(LeadingName(line)) + 1)..(k - 1) :
                is_whitespace(line[i])

HasReservedPrefix(name) ==
    /\ Len(name) >= 2
    /\ name[1] \in {"B", "E"}
    /\ name[2] = "_"

ErrorKind == IF result.tag = "Err" THEN result.err.content.kind ELSE "none"

\* C1: whenever parse_peg_nocheck returns Ok(tree), the rule map of the tree
\* has the key `main`, and no key of it begins with `B_` or `E_`.
C1_MainAndNoReservedName ==
    (mode = "parse_peg_nocheck" /\ result.tag = "Ok") =>
        /\ <<"m", "a", "i", "n">> \in DOMAIN result.val.rules
        /\ \A n \in DOMAIN result.val.rules : ~HasReservedPrefix(n)

\* A grammar of several rules was parsed with success.
C1_Witness ==
    /\ mode = "parse_peg_nocheck"
    /\ result.tag = "Ok"
    /\ Cardinality(DOMAIN result.val.rules) >= 2

\* C8: when the loop reads, outside a comment, a rule line whose name begins
\* with `B_` or `E_`, parse_peg_nocheck returns the reserved-rule-name error
\* at (that line, the column of the name's first character) with the length
\* of the name, whatever the content of the line, and reads no later line.
C8_ReservedNameError ==
    (mode = "parse_peg_nocheck" /\ l >= 1) =>
        /\ ( /\ IsRuleLine(InputLines[l])
             /\ HasReservedPrefix(LeadingName(InputLines[l]))
             /\ ~OpenAfter(l - 1) )
           => /\ ErrorKind = "ReservedUppercaseRuleName"
              /\ result.err.loc = ParserLoc(l - 1, LeadingBlanks(InputLines[l]))
              /\ result.err.length = Len(LeadingName(InputLines[l]))
        /\ ErrorKind = "ReservedUppercaseRuleName"
           => /\ result.err.loc.line = l - 1
              /\ HasReservedPrefix(LeadingName(InputLines[l]))

\* The reserved name is declared on a later line than the first, indented,
\* and lines follow it.
C8_Witness ==
    /\ mode = "parse_peg_nocheck"
    /\ ErrorKind = "ReservedUppercaseRuleName"
    /\ result.err.loc.line >= 1
    /\ result.err.loc.col >= 1
    /\ l < Len(InputLines)

\* C9, as stated: `### foo ###` / `foo = "a"` fails with MissingMainRule, and
\* `### unterminated` / `main = "a"` fails with UnterminatedMultiLineComment
\* pointing at the first `###`.
C9_AsStated ==
    (mode = "parse_peg_nocheck" /\ result # Running) =>
        /\ input = S5_MissingMain => ErrorKind = "MissingMainRule"
        /\ input = S5_Unterminated =>
              /\ ErrorKind = "UnterminatedMultiLineComment"
              /\ result.err.content.started_at = ParserLoc(0, 0)

\* C9, amended: both grammars fail with ExpectedRuleDeclaration at line 0,
\* column 0, length 1, since their first line is no comment marker; with the
\* markers on lines of their own, `###` / `foo` / `###` / `foo = "a"` fails
\* with MissingMainRule and `###` / `unterminated` / `main = "a"` fails with
\* UnterminatedMultiLineComment started at (0, 0).
C9_Scenario5 ==
    (mode = "parse_peg_nocheck" /\ result # Running) =>
        /\ input \in {S5_MissingMain, S5_Unterminated} =>
              /\ ErrorKind = "ExpectedRuleDeclaration"
              /\ result.err.loc = ParserLoc(0, 0)
              /\ result.err.length = 1
        /\ input = S5_MissingMain_OwnLines => ErrorKind = "MissingMainRule"
        /\ input = S5_Unterminated_OwnLines =>
              /\ ErrorKind = "UnterminatedMultiLineComment"
              /\ result.err.content.started_at = ParserLoc(0, 0)

\* parse_peg_nocheck has returned on the first grammar of the scenario.
C9_Witness ==
    /\ mode = "parse_peg_nocheck"
    /\ input = S5_MissingMain
    /\ result # Running

\* C10: the comment state is open exactly after an odd number of marker
\* lines, and then holds the place of the last of them; a line read while it
\* is open declares no rule and raises no error; and when it is open after
\* the last line, the parse fails with UnterminatedMultiLineComment started
\* at that place, with or without a `main` rule.
C10_CommentState ==
    mode = "parse_peg_nocheck" =>
        /\ multi_line_comment_opened # None <=> OpenAfter(l)
        /\ OpenAfter(l) =>
              multi_line_comment_opened =
                  Some(<<LastMarkerIn(l) - 1,
                         LeadingBlanks(InputLines[LastMarkerIn(l)])>>)
        /\ DOMAIN rules \subseteq
              { LeadingName(InputLines[i]) :
                  i \in { k \in 1..l : ~OpenAfter(k - 1) /\ ~IsMarkerLine(InputLines[k]) } }
        /\ ( /\ result.tag \in {"Err", "Panic"}
             /\ l >= 1
             /\ OpenAfter(l - 1)
             /\ ~IsMarkerLine(InputLines[l]) ) =>
              /\ l = Len(InputLines)
              /\ ErrorKind = "UnterminatedMultiLineComment"
        /\ (result # Running /\ l = Len(InputLines) /\ OpenAfter(l)) =>
              /\ ErrorKind = "UnterminatedMultiLineComment"
              /\ result.err.content.started_at =
                     ParserLoc(LastMarkerIn(l) - 1,
                               LeadingBlanks(InputLines[LastMarkerIn(l)]))

\* A comment opened by an indented marker, after an earlier comment was
\* closed, is still open at the end of a grammar that declares no `main`.
C10_Witness ==
    /\ mode = "parse_peg_nocheck"
    /\ ErrorKind = "UnterminatedMultiLineComment"
    /\ result.err.content.started_at.line >= 2
    /\ result.err.content.started_at.col >= 1
    /\ <<"m", "a", "i", "n">> \notin DOMAIN rules

(***************************************************************************)
(* Properties of parse_rule_content                                        *)
(***************************************************************************)

\* Every Suite and every Union of the tree has two children or more.
RECURSIVE SuitesAndUnionsOfTwo(_)
SuitesAndUnionsOfTwo(p) ==
    CASE p.value.tag \in {"Suite", "Union"} ->
            /\ Len(p.value.pieces) >= 2
            /\ \A i \in 1..Len(p.value.pieces) : SuitesAndUnionsOfTwo(p.value.pieces[i])
      [] p.value.tag = "Group" -> SuitesAndUnionsOfTwo(p.value.inner)
      [] OTHER -> TRUE

\* C5: parse_rule_content never fails an assertion, and in every tree it
\* returns each Suite has at least 2 children and each Union at least 2
\* alternatives.
C5_SuitesAndUnionsOfTwo ==
    mode = "parse_rule_content" =>
        /\ result.tag # "Panic"
        /\ result.tag = "Ok" => SuitesAndUnionsOfTwo(result.val)

\* A union of three members was returned, one a suite, one a single piece
\* and one a group that holds a union itself.
C5_Witness ==
    /\ mode = "parse_rule_content"
    /\ result.tag = "Ok"
    /\ result.val.value.tag = "Union"
    /\ Len(result.val.value.pieces) = 3
    /\ \E i, j, k \in 1..3 :
          /\ result.val.value.pieces[i].value.tag = "Suite"
          /\ result.val.value.pieces[j].value.tag = "Rule"
          /\ result.val.value.pieces[k].value.tag = "Group"
          /\ result.val.value.pieces[k].value.inner.value.tag = "Union"

\* The pattern is the piece of that kind, wherever it is located.
IsPieceOfKind(p, kind) ==
    /\ p.value.tag = kind.tag
    /\ p.is_silent = kind.is_silent
    /\ p.repetition = kind.repetition
    /\ kind.tag = "Rule" => p.value.name = kind.of
    /\ kind.tag = "CstString" => p.value.s = kind.of
    /\ kind.tag = "Group" =>
          /\ p.value.inner.value.tag = "Union"
          /\ Len(p.value.inner.value.pieces) = 2
          /\ p.value.inner.value.pieces[1].value.tag = "Suite"
          /\ p.value.inner.value.pieces[2].value = Rule(<<"w">>)

\* The pattern is the i-th group of the shape: its piece when it has one, a
\* Suite of its pieces in order otherwise.
IsGroupOfShape(p, sh, i) ==
    IF sh.sizes[i] = 1 THEN IsPieceOfKind(p, PieceOf(sh, i, 1))
    ELSE /\ p.value.tag = "Suite"
         /\ p.repetition = None
         /\ ~p.is_silent
         /\ Len(p.value.pieces) = sh.sizes[i]
         /\ \A j \in 1..sh.sizes[i] : IsPieceOfKind(p.value.pieces[j], PieceOf(sh, i, j))

\* C6: for a content of k+1 groups of whitespace-separated pieces, the groups
\* separated by `|`, parse_rule_content returns a Union of the k+1 groups in
\* order, a group being its piece or the Suite of its pieces; for one group
\* it returns the Suite of its pieces, or its piece unwrapped.
C6_UnionOfSuites ==
    (mode = "parse_rule_content" /\ shape # <<>> /\ result # Running) =>
        /\ result.tag = "Ok"
        /\ IF Len(shape.sizes) = 1 THEN IsGroupOfShape(result.val, shape, 1)
           ELSE /\ result.val.value.tag = "Union"
                /\ result.val.repetition = None
                /\ ~result.val.is_silent
                /\ Len(result.val.value.pieces) = Len(shape.sizes)
                /\ \A i \in 1..Len(shape.sizes) :
                      IsGroupOfShape(result.val.value.pieces[i], shape, i)

\* A content of three groups, of two pieces, one piece and three pieces, was
\* parsed.
C6_Witness ==
    /\ mode = "parse_rule_content"
    /\ shape # <<>>
    /\ shape.sizes = <<2, 1, 3>>
    /\ result.tag = "Ok"
    /\ result.val.value.tag = "Union"

(***************************************************************************)
(* Properties of the emitted matchers                                      *)
(***************************************************************************)

Generated == [pst |-> rules, state |-> state]

RECURSIVE SubPatterns(_)
SubPatterns(p) ==
    {p} \cup
    CASE p.value.tag = "Group" -> SubPatterns(p.value.inner)
      [] p.value.tag \in {"Suite", "Union"} ->
            UNION { SubPatterns(p.value.pieces[i]) : i \in 1..Len(p.value.pieces) }
      [] OTHER -> {}

UnionsOf(name) == { q \in SubPatterns(rules[name]) : q.value.tag = "Union" }

\* The top pattern of `main`, matched on the whole input at offset 0.
TopOfMain ==
    gen_rust_pattern_piece_matcher(Generated, GRAMMAR_ENTRYPOINT_RULE,
        rules[GRAMMAR_ENTRYPOINT_RULE], input, 0, MaxFuel)

\* C2, as stated: when the matcher of `main` called by exec returns success
\* with `consumed`, consumed is the length of the input; and when the top
\* pattern of `main` matches and leaves input unconsumed, the result is
\* ExpectedEndOfInput at `consumed`; for every grammar, a silent `main`
\* included.
C2_AsStated ==
    (mode = "exec" /\ state # <<>> /\ result # Running) =>
        /\ result.tag = "Ok" => result.val.snd = Len(input)
        /\ (TopOfMain.tag = "Ok" /\ TopOfMain.val.snd < Len(input)) =>
              result = Err(PegError(TopOfMain.val.snd, [kind |-> "ExpectedEndOfInput"]))

\* The results of the alternatives, each matched alone on `inp` at `offset`.
AlternativesAt(name, q, inp, offset) ==
    [i \in 1..Len(q.value.pieces) |->
        gen_rust_pattern_piece_matcher(Generated, name, q.value.pieces[i], inp,
                                       offset, MaxFuel)]

Succeeded(alts) == { i \in DOMAIN alts : alts[i].tag = "Ok" }

\* The alternative of lowest index among those that consumed the most.
IsChosen(alts, i) ==
    /\ i \in Succeeded(alts)
    /\ \A j \in Succeeded(alts) :
          \/ alts[j].val.snd < alts[i].val.snd
          \/ alts[j].val.snd = alts[i].val.snd /\ i <= j

UnionContract(offset, r, alts) ==
    IF Succeeded(alts) = {}
    THEN r = Err(PegError(offset,
                 [kind |-> "NoMatchInUnion",
                  errors |-> [i \in DOMAIN alts |-> alts[i].err]]))
    ELSE /\ r.tag = "Ok"
         /\ \E i \in DOMAIN alts :
               /\ IsChosen(alts, i)
               /\ r.val.snd = alts[i].val.snd
               /\ r.val.fst = [v |-> "Sw", n |-> Len(alts),
                               variant |-> <<ALPHABET[i]>>, data |-> alts[i].val.fst]

RECURSIVE DepthOfMain(_)
DepthOfMain(value) ==
    CASE value.v = "rule" ->
            (IF value.name = GRAMMAR_ENTRYPOINT_RULE THEN 1 ELSE 0)
            + DepthOfMain(value.matched)
      [] value.v \in {"Rc", "Sw"} -> DepthOfMain(value.data)
      [] value.v \in {"tuple", "Vec"} ->
            IF \E i \in 1..Len(value.items) : DepthOfMain(value.items[i]) > 0
            THEN CHOOSE d \in 1..MaxFuel :
                     /\ \E i \in 1..Len(value.items) : DepthOfMain(value.items[i]) = d
                     /\ \A i \in 1..Len(value.items) : DepthOfMain(value.items[i]) <= d
            ELSE 0
      [] OTHER -> 0

\* C4, as stated: for the grammar `main = "(" main ")" | "x"`, the matcher of
\* `main` run on `((x))` succeeds with consumed 5 and a value in which `main`
\* is nested to depth 3.
C4_AsStated ==
    ( /\ mode = "exec"
      /\ rules = GrammarOf(ParenGrammarText)
      /\ input = <<"(", "(", "x", ")", ")">>
      /\ result # Running ) =>
        /\ result.tag = "Ok"
        /\ result.val.snd = 5
        /\ DepthOfMain(result.val.fst) = 3

(***************************************************************************)
(* Properties of find_recursive_patterns                                   *)
(***************************************************************************)

\* The references from a declared rule to a declared rule.
References == { e \in (DOMAIN rules) \X (DOMAIN rules) : e[2] \in NamesIn(rules[e[1]]) }

\* The rules reached from `from` by one edge or more, within k edges.
RECURSIVE ReachedWithin(_, _, _)
ReachedWithin(edges, from, k) ==
    IF k = 0 THEN {}
    ELSE { e[2] : e \in { d \in edges : d[1] = from } }
         \cup UNION { ReachedWithin(edges, e[2], k - 1) :
                          e \in { d \in edges : d[1] = from } }

Reached(edges, from) == ReachedWithin(edges, from, Cardinality(DOMAIN rules))

\* C7, as stated: for every declared rule R, reachable from `main` or not,
\* every name of recursive_paths[R] is a rule reachable from R, and the
\* references without the recorded ones, R -> n with n in recursive_paths[R],
\* have no cycle.
C7_AsStated ==
    (mode = "find_recursive_patterns" /\ result.tag = "Ok") =>
        /\ \A R \in DOMAIN rules : result.val[R] \subseteq Reached(References, R)
        /\ \A R \in DOMAIN rules :
              R \notin Reached({ e \in References : e[2] \notin result.val[e[1]] }, R)

(***************************************************************************)
(* Properties of the repetitions                                           *)
(***************************************************************************)

PiecesRepeated(name, repetition) ==
    { q \in SubPatterns(rules[name]) : q.repetition = Some(repetition) }

\* One attempt of the inner piece of `q` on the input left after `pos`
\* characters; the loop does not move `offset`.
Attempt(name, q, inp, offset, pos) ==
    piece_matcher_once(Generated, name, q, Drop(inp, pos), offset, MaxFuel)

RECURSIVE AttemptsFrom(_, _, _, _, _, _, _)

\* `a` is the attempt made after `pos` characters and idx - 1 successes.
AttemptedFrom(name, q, inp, offset, r, pos, idx, a) ==
    IF a.tag = "Err"
    THEN /\ r.val.snd = pos
         /\ Len(r.val.fst.items) = (IF q.is_silent THEN 0 ELSE idx - 1)
    ELSE /\ a.tag = "Ok"
         /\ IsPair(a.val)
         /\ a.val.snd > 0
         /\ q.is_silent \/ (idx <= Len(r.val.fst.items) /\ r.val.fst.items[idx] = a.val.fst)
         /\ AttemptsFrom(name, q, inp, offset, r, pos + a.val.snd, idx + 1)

AttemptsFrom(name, q, inp, offset, r, pos, idx) ==
    AttemptedFrom(name, q, inp, offset, r, pos, idx, Attempt(name, q, inp, offset, pos))

AnyContract(name, q, inp, offset, r) ==
    /\ r.tag # "Err"
    /\ r.tag = "Ok" =>
          /\ IsPair(r.val)
          /\ r.val.fst.v = "Vec"
          /\ AttemptsFrom(name, q, inp, offset, r, 0, 1)

\* C11: the matcher of a piece repeated with `*` returns no error; when it
\* returns, the attempts of the inner piece, each made where the success
\* before it ended, succeed up to the first that fails, consumed is the sum
\* of what they consumed (0 when the first fails) and the values are theirs
\* in order (none when the piece is silent).
C11_AnyNeverFails ==
    (mode = "exec" /\ state # <<>>) =>
        \A name \in DOMAIN rules : \A q \in PiecesRepeated(name, "Any") :
            \A k \in 0..Len(input) :
                AnyContract(name, q, Drop(input, k), k,
                    gen_rust_pattern_piece_matcher(Generated, name, q, Drop(input, k),
                                                   k, MaxFuel))

AnyMatchedAt(name, q, inp, offset, r) ==
    /\ r.tag = "Ok"
    /\ Len(r.val.fst.items) >= 2
    /\ r.val.snd < Len(inp)

\* A piece repeated with `*` that succeeds twice after the start of the
\* input and then fails before its end, and one that fails at once.
C11_Witness ==
    /\ mode = "exec"
    /\ state # <<>>
    /\ \E name \in DOMAIN rules : \E q \in PiecesRepeated(name, "Any") :
          /\ \E k \in 1..Len(input) :
                AnyMatchedAt(name, q, Drop(input, k), k,
                    gen_rust_pattern_piece_matcher(Generated, name, q, Drop(input, k),
                                                   k, MaxFuel))
          /\ gen_rust_pattern_piece_matcher(Generated, name, q, input, 0, MaxFuel)
                = Ok(Pair(VecValue(<<>>), 0))

OptionalContract(r, a) ==
    /\ r.tag = "Ok"
    /\ a.tag = "Ok" => r = Ok(Pair(Some(a.val.fst), a.val.snd))
    /\ a.tag = "Err" => r = Ok(Pair(None, 0))

\* C12, as stated: the matcher of a piece repeated with `?` returns no error
\* and returns a pair (value, consumed): (Some(v), c) when the attempt of the
\* inner piece succeeds with (v, c), (None, 0) when it fails.
C12_AsStated ==
    (mode = "exec" /\ state # <<>>) =>
        \A name \in DOMAIN rules : \A q \in PiecesRepeated(name, "Optional") :
            \A k \in 0..Len(input) :
                OptionalContract(
                    gen_rust_pattern_piece_matcher(Generated, name, q, Drop(input, k),
                                                   k, MaxFuel),
                    Attempt(name, q, Drop(input, k), k, 0))

(***************************************************************************)
(* Properties of the matched types and of the declarations                 *)
(***************************************************************************)

Emitted == mode = "gen_rust_token_stream" /\ result.tag = "Ok"

AllPatterns == UNION { SubPatterns(rules[name]) : name \in DOMAIN rules }

\* The piece is silent for the analyzer, the tables being those of the state.
AnalyzerSilent(piece) == is_silent_piece(rules, state.silent_patterns, piece, 0).val[1]

\* The piece has a matched type, the tables being those of the state.
HasType(name, piece) == gen_rust_pattern_piece_type(state, name, piece).ty # None

\* The Suite matcher keeps the result of the piece.
Kept(piece) == ~suite_piece_is_silent([pst |-> rules, state |-> state], piece)

\* C13, as stated: in every Suite the children whose results the matcher
\* keeps are the children that are not silent for the analyzer, and these are
\* the children that have a type in the matched type of the Suite, a child
\* that is silent through its structure only included.
C13_AsStated ==
    Emitted =>
        \A name \in DOMAIN rules : \A q \in SubPatterns(rules[name]) :
            q.value.tag = "Suite" =>
                \A i \in 1..Len(q.value.pieces) :
                    /\ Kept(q.value.pieces[i]) <=> ~AnalyzerSilent(q.value.pieces[i])
                    /\ HasType(name, q.value.pieces[i]) <=> ~AnalyzerSilent(q.value.pieces[i])

\* C14, as stated: two different strings registered in cst_string_types
\* never have the same identifier.
C14_AsStated ==
    Emitted =>
        \A s1, s2 \in DOMAIN state.cst_string_types :
            s1 # s2 => state.cst_string_types[s1] # state.cst_string_types[s2]

\* C15, as stated: a declared rule has no matched type if and only if the
\* silence analysis lists it as silent.
C15_AsStated ==
    Emitted =>
        \A name \in DOMAIN rules :
            state.pattern_types[name] = None <=> name \in state.silent_patterns

Unions == { q \in AllPatterns : q.value.tag = "Union" }

\* C19, as stated: the arities for which an enum of `unions` is declared are
\* those of the Unions of the grammar, of 2 alternatives or more, the Unions
\* inside a silent piece included.
C19_AsStated ==
    Emitted =>
        result.val.unions
            = { n \in { Len(q.value.pieces) : q \in Unions } : n >= 2 }

UnionTypeContract(name, q, ty) ==
    ty # None =>
        /\ ty.val.t = "Sw"
        /\ ty.val.n = Len(q.value.pieces)
        /\ Len(ty.val.args) = Len(q.value.pieces)
        /\ \A i \in 1..Len(q.value.pieces) :
              gen_rust_pattern_piece_type(state, name, q.value.pieces[i]).ty
                  = Some(ty.val.args[i])

\* C20, as stated: the type of a Union of n alternatives is the enum of arity
\* n with n arguments, the i-th being the type of the i-th alternative, also
\* when alternatives are silent.
C20_AsStated ==
    Emitted =>
        \A name \in DOMAIN rules : \A q \in UnionsOf(name) :
            UnionTypeContract(name, q,
                gen_rust_pattern_piece_value_type(state, name, q.value).ty)

(***************************************************************************)
(* Properties of the analyses                                              *)
(***************************************************************************)

Analysed == mode = "list_silent_patterns" /\ result # Running

\* The tables that the analyses yield when the rules are iterated in the
\* order `keys` are those of the state; or, when an analysis failed, one
\* fails in that order too.
SameTables(keys, silent, rec) ==
    IF result.tag = "Ok"
    THEN /\ silent = result
         /\ rec.tag = "Ok"
         /\ recursive_paths_filled(rec.val, keys, 1) = state.recursive_paths
    ELSE silent.tag # "Ok" \/ rec.tag # "Ok"

\* C16: the analyses run again on the same tree, the rules being iterated in
\* any order, yield the tables of the first run: the same set of silent
\* rules and the same recursive paths.
C16_AnalysesDeterministic ==
    Analysed =>
        \A keys \in KeyOrders(rules) :
            SameTables(keys, list_silent_patterns(rules, keys), find_recursive_patterns(rules))

\* Two rules are silent, one of them through a reference to the other, and
\* the rule that refers was checked before the rule it refers to.
C16_Witness ==
    /\ Analysed
    /\ result.tag = "Ok"
    /\ \E i, j \in 1..Len(traversal.keys) :
          /\ i < j
          /\ {traversal.keys[i], traversal.keys[j]} \subseteq result.val
          /\ rules[traversal.keys[i]].value = Rule(traversal.keys[j])
          /\ ~rules[traversal.keys[i]].is_silent

\* The grammar has no cycle of references between declared rules.
Acyclic == \A R \in DOMAIN rules : R \notin Reached(References, R)

\* The grammar has no reference to a name that is not declared, builtins aside.
NoExternal ==
    \A name \in DOMAIN rules : \A n \in NamesIn(rules[name]) :
        n \in DOMAIN rules \/ is_builtin_pattern_name(n)

\* C17, as stated: the analysis completes on a grammar with references to
\* builtins and to external names, and a reference without the silent flag
\* is silent if and only if its name is a declared rule that is silent.
\* Stated of the grammars without a cycle of references.
C17_AsStated ==
    (Analysed /\ Acyclic) =>
        /\ result.tag = "Ok"
        /\ \A q \in AllPatterns :
              (q.value.tag = "Rule" /\ ~q.is_silent) =>
                  (AnalyzerSilent(q)
                      <=> (q.value.name \in DOMAIN rules /\ q.value.name \in result.val))

\* The silence rules, the silent rules being those of `silent`.
RECURSIVE SilentUnder(_, _)
SilentUnder(silent, piece) ==
    \/ piece.is_silent
    \/ CASE piece.value.tag = "CstString" -> FALSE
         [] piece.value.tag = "Rule" -> piece.value.name \in silent
         [] piece.value.tag = "Group" -> SilentUnder(silent, piece.value.inner)
         [] piece.value.tag \in {"Suite", "Union"} ->
               \A i \in 1..Len(piece.value.pieces) : SilentUnder(silent, piece.value.pieces[i])

\* The least fixed point of the silence rules, iterated from no silent rule.
RECURSIVE SilentAfter(_, _)
SilentAfter(silent, k) ==
    IF k = 0 THEN silent
    ELSE SilentAfter({ name \in DOMAIN rules : SilentUnder(silent, rules[name]) }, k - 1)

SilentFixedPoint == SilentAfter({}, Cardinality(DOMAIN rules))

\* C18, as stated: list_silent_patterns terminates, also when a rule refers to
\* itself directly or through other rules, and returns the declared rules
\* that are silent under the fixed point of the silence rules.  Stated of the
\* grammars whose references are all to declared rules or builtins.
C18_AsStated ==
    (Analysed /\ NoExternal) =>
        /\ result.tag = "Ok"
        /\ result.val = SilentFixedPoint

(***************************************************************************)
(* Properties of the locations                                             *)
(***************************************************************************)

\* The column, in the text of its group, of the j-th piece of the i-th group.
RECURSIVE PieceStart(_, _, _)
PieceStart(sh, i, j) ==
    IF j = 1 THEN 0
    ELSE PieceStart(sh, i, j - 1) + Len(PieceOf(sh, i, j - 1).text) + Len(sh.piece_sep)

\* The column, in the rendered content, of the first piece of the i-th group.
RECURSIVE GroupStart(_, _)
GroupStart(sh, i) ==
    IF i = 1 THEN 0
    ELSE GroupStart(sh, i - 1) + Len(RenderGroup(sh, i - 1, 1)) + Len(sh.union_sep)

\* The members of a Suite are located by their distance to the first one.
SuiteLocated(sh, i, p) ==
    p.value.tag = "Suite" =>
        \A j \in 1..Len(p.value.pieces) :
            p.value.pieces[j].relative_loc = ParserLoc(0, PieceStart(sh, i, j))

\* The alternatives of a Union are located by their distance to the first
\* one, and so are the members of each alternative that is a Suite.
UnionLocated(sh, p) ==
    \A i \in 1..Len(p.value.pieces) :
        /\ p.value.pieces[i].relative_loc = ParserLoc(0, GroupStart(sh, i))
        /\ SuiteLocated(sh, i, p.value.pieces[i])

ContentParsed ==
    /\ mode = "parse_rule_content"
    /\ shape # <<>>
    /\ result.tag = "Ok"

\* C21, as stated: after parse_rule_content succeeds, in every Suite and
\* every Union it built the first child is located at (0, 0) and every other
\* child at (0, d), d being the distance in columns from the first character
\* of the first child to the first character of that child, whatever the
\* whitespace around the separators; an alternative that is a Suite is
\* located in its Union like any other alternative.
C21_AsStated ==
    ContentParsed =>
        IF Len(shape.sizes) = 1
        THEN SuiteLocated(shape, 1, result.val)
        ELSE UnionLocated(shape, result.val)

(***************************************************************************)
(* Properties of the declaration of a rule                                 *)
(***************************************************************************)

\* The number of whitespace characters that follow the first k of a line.
BlanksAfter(line, k) ==
    Cardinality({ i \in 1..(Len(line) - k) : \A j \in 1..i : is_whitespace(line[k + j]) })

\* The column that follows the name of a line and the whitespace after it.
ColumnAfterName(line) ==
    LeadingBlanks(line) + Len(LeadingName(line))
        + BlanksAfter(line, LeadingBlanks(line) + Len(LeadingName(line)))

\* The line begins with a name, and the first character after the name and
\* the whitespace that follows it is not `=`: it is not allowed there.
HasIllegalSymbol(line) ==
    /\ LeadingName(line) # <<>>
    /\ LeadingName(line)[1] \notin Digits
    /\ ColumnAfterName(line) < Len(line)
    /\ line[ColumnAfterName(line) + 1] # "="

\* C22, as stated: when the loop reads, outside a comment, a line that has
\* before its `=` a character c that is not allowed there, parse_peg_nocheck
\* returns IllegalSymbol(c) at (that line, the column of c) with length 1,
\* whatever the whitespace between the name and c.
C22_AsStated ==
    ( /\ mode = "parse_peg_nocheck"
      /\ l >= 1
      /\ HasIllegalSymbol(InputLines[l])
      /\ ~OpenAfter(l - 1) )
    => /\ ErrorKind = "IllegalSymbol"
       /\ result.err.content.c = InputLines[l][ColumnAfterName(InputLines[l]) + 1]
       /\ result.err.loc = ParserLoc(l - 1, ColumnAfterName(InputLines[l]))
       /\ result.err.length = 1

(***************************************************************************)
(* format_str_type called again and again on a string of at most MaxStrLen *)
(* characters of StrChars, with the counters it left, at most MaxCalls     *)
(* times.  `state` holds the counters and `l` the number of calls made.    *)
(***************************************************************************)

MaxStrLen == 4

MaxCalls == 2

StrChars == {"a", "1", " ", "\t", "_", "-"}

InitFormat ==
    /\ mode = "format_str_type"
    /\ input \in StringsOver(StrChars, MaxStrLen)
    /\ state = << >>
    /\ l = 0
    /\ result = Running
    /\ rules = NoRules
    /\ multi_line_comment_opened = None
    /\ shape = <<>>
    /\ traversal = <<>>

FormatStrType ==
    /\ mode = "format_str_type"
    /\ l < MaxCalls
    /\ \E o \in { format_str_type(state, input) } :
          /\ result' = Ok(o.ident)
          /\ state' = o.cst_string_counters
    /\ l' = l + 1
    /\ UNCHANGED <<mode, input, rules, multi_line_comment_opened, shape, traversal>>

NextFormat == FormatStrType

SpecFormat == InitFormat /\ [][NextFormat]_vars

(***************************************************************************)
(* Properties of the names of the constant strings                         *)
(***************************************************************************)

\* What the i-th character of a string adds to the name: a `_` for a run of
\* whitespace, at the first character of the run; an alphanumeric character,
\* uppercased when it follows whitespace; a `_`; the name of another
\* character between `__` and `__`.
AddedAsStated(string, i) ==
    IF is_whitespace(string[i])
    THEN IF i > 1 /\ is_whitespace(string[i - 1]) THEN <<>> ELSE <<"_">>
    ELSE IF is_alphanumeric(string[i])
    THEN IF i > 1 /\ is_whitespace(string[i - 1])
         THEN to_uppercase(string[i])
         ELSE <<string[i]>>
    ELSE IF string[i] = "_" THEN <<"_">>
    ELSE <<"_", "_">> \o char_name(string[i]) \o <<"_", "_">>

RECURSIVE NameAsStated(_, _)
NameAsStated(string, i) ==
    IF i > Len(string) THEN <<>>
    ELSE AddedAsStated(string, i) \o NameAsStated(string, i + 1)

\* The identifier of the k-th call for a string whose name is `name`.
IdentOf(k, name) ==
    <<"S", "t", "r">> \o (IF k > 1 THEN to_string(k - 1) ELSE <<>>) \o <<"_">> \o name

\* C23, as stated: in the name that format_str_type derives from a string,
\* each maximal run of whitespace adds exactly one `_`, and the first
\* alphanumeric character directly after a run of whitespace is added
\* uppercased.
C23_AsStated ==
    (mode = "format_str_type" /\ result.tag = "Ok") =>
        result.val = IdentOf(l, NameAsStated(input, 1))

(***************************************************************************)
(* Properties of the recursion map                                         *)
(***************************************************************************)

\* C24: once gen_rust_token_stream has built its state, before any matched
\* type is planned and from then on, the recursion map has an entry for every
\* declared rule, reachable from `main` or not; and no lookup of the entry of
\* the rule being planned fails.
C24_RecursionMapTotal ==
    mode = "gen_rust_token_stream" =>
        /\ state # <<>> => DOMAIN rules \subseteq DOMAIN state.recursive_paths
        /\ result # Panic("key not found in recursive_paths")

\* The types of all the rules are planned, and one of the rules is not
\* reachable from `main` and is a reference to a rule that is not silent:
\* planning it looked up its entry, which only the loop could add.
C24_Witness ==
    /\ mode = "gen_rust_token_stream"
    /\ state # <<>>
    /\ result.tag = "Ok"
    /\ \E R \in DOMAIN rules \ {GRAMMAR_ENTRYPOINT_RULE} :
          /\ R \notin Reached(References, GRAMMAR_ENTRYPOINT_RULE)
          /\ ~rules[R].is_silent
          /\ rules[R].value.tag = "Rule"
          /\ rules[R].value.name \in DOMAIN rules
          /\ rules[R].value.name \notin state.silent_patterns
          /\ state.recursive_paths[R] = {}

(***************************************************************************)
(* Properties of the path of find_recursive_patterns                       *)
(***************************************************************************)

\* The path holds no name twice, holds declared rules only (no more of them
\* than are declared, and no builtin or external name), and is empty when no
\* call is pending.
PathSound ==
    /\ \A i, j \in 1..Len(traversal.path) :
          traversal.path[i] = traversal.path[j] => i = j
    /\ Len(traversal.path) <= Cardinality(DOMAIN rules)
    /\ \A i \in 1..Len(traversal.path) :
          /\ traversal.path[i] \in DOMAIN rules
          /\ ~is_builtin_pattern_name(traversal.path[i])
          /\ ~is_external_pattern_name(traversal.path[i])
    /\ traversal.stack = <<>> => traversal.path = <<>>

TraversalReturned ==
    /\ result.tag = "Ok"
    /\ traversal.stack = <<>>
    /\ traversal.path = <<>>

\* C25: find_recursive_patterns returns on every validated grammar, whatever
\* the cycles of its references: at every step the path holds no rule twice,
\* is no longer than the number of declared rules and holds no builtin or
\* external name, and the path is empty when the traversal returns.
C25_TraversalTerminates ==
    /\ [](mode = "find_recursive_patterns" => PathSound)
    /\ <>TraversalReturned

\* The traversal has returned on a grammar whose three rules form one cycle:
\* the reference of y to main was found with main, x and y on the path.
C25_Witness ==
    /\ mode = "find_recursive_patterns"
    /\ TraversalReturned
    /\ Cardinality(DOMAIN rules) = 3
    /\ \E R \in DOMAIN rules \ {GRAMMAR_ENTRYPOINT_RULE} :
          /\ R \in DOMAIN traversal.treated_recursives
          /\ GRAMMAR_ENTRYPOINT_RULE \in traversal.treated_recursives[R]
          /\ \E Q \in DOMAIN rules \ {GRAMMAR_ENTRYPOINT_RULE, R} :
                /\ rules[GRAMMAR_ENTRYPOINT_RULE].value = [tag |-> "Rule", name |-> Q]
                /\ rules[Q].value = [tag |-> "Rule", name |-> R]

(***************************************************************************)
(* The matchers of repeated pieces that can succeed on no character: the   *)
(* grammars of RepeatGrammars are parsed, gen_rust_token_stream builds its *)
(* state, and exec runs the matcher of `main` on an input of at most       *)
(* MaxInputLen characters.                                                 *)
(***************************************************************************)

RepeatGrammars ==
    { <<"m", "a", "i", "n", " ", "=", " ", "x", "*", "\n", "x", " ", "=", " ", "\"", "c", "\"", "*">>,
      <<"m", "a", "i", "n", " ", "=", " ", "x", "+", "\n", "x", " ", "=", " ", "\"", "c", "\"", "*">>,
      <<"m", "a", "i", "n", " ", "=", " ", "\"", "a", "\"", " ", "_", ":", "x", "*", "\n", "x", " ", "=", " ", "\"", "c", "\"", "*">>,
      <<"m", "a", "i", "n", " ", "=", " ", "(", "\"", "c", "\"", "*", ")", "*">>,
      <<"m", "a", "i", "n", " ", "=", " ", "o", "*", "\n", "o", " ", "=", " ", "\"", "a", "\"", "?">>,
      <<"m", "a", "i", "n", " ", "=", " ", "x", "*", "\n", "x", " ", "=", " ", "\"", "c", "\"", "+">>,
      <<"m", "a", "i", "n", " ", "=", " ", "\"", "a", "\"", "+", " ", "\"", "c", "\"", "*">> }

InitRepeat ==
    /\ mode = "exec"
    /\ rules \in { GrammarOf(text) : text \in RepeatGrammars }
    /\ input \in StringsOver({"a", "c"}, MaxInputLen)
    /\ l = 0
    /\ multi_line_comment_opened = None
    /\ result = Running
    /\ shape = <<>>
    /\ state = <<>>
    /\ traversal = <<>>

SpecRepeat == InitRepeat /\ [][NextMatch]_vars

(***************************************************************************)
(* Properties of the loops of repeated pieces                              *)
(***************************************************************************)

\* C26: the matcher loop of a piece repeated with `*` or `+` ends on every
\* finite input, also when the inner piece can succeed on no character: exec
\* never runs for ever.
C26_AsStated ==
    mode = "exec" => result # Diverge

====
